---- MODULE Spec2Model ----
(***************************************************************************)
(* Model of UXUITester (src/src/testers/ux-ui-tester.ts): the session      *)
(* orchestrator runAllTests, the twelve probes, and the report aggregator  *)
(* generateReport with its score arithmetic.                               *)
(*                                                                         *)
(* Scores are stored in half-points (Unit per point): the finest step any  *)
(* probe produces is 0.5 (testColorContrast), so every score of the        *)
(* program is an integer number of half-points.                            *)
(***************************************************************************)
EXTENDS Integers, Sequences, FiniteSets, TLC

\* ---------------------------------------------------------------- bounds
\* Largest element count the page content is swept over (images without
\* alt text, focusable elements, small touch targets, ...).
MaxCount == 12
\* Most probe methods a caller invokes directly in one session.
MaxCalls == 3
\* Most ElementIssues the recorder holds at one time.
MaxRecords == 3
\* Most further runAllTests calls on a tester whose first one has settled.
MaxReruns == 1

\* ------------------------------------------------------ program constants
\* Half-points per score point: 10 - n * 0.5 is the finest score step.
Unit == 2
\* A JavaScript number is an IEEE-754 binary64: a leading 1 and 52 fraction
\* bits, held here as LimbCount limbs of LimbBits bits each.
LimbBits == 13
LimbCount == 4

Pts(n) == n * Unit

\* ------------------------------------------------- IEEE-754 binary64 model
\* A positive double is [limbs |-> <<d1, .., d4>>, e |-> k]: the 52 fraction
\* bits of the significand in base 2^13, most significant limb first; the
\* value is (1 + frac / 2^52) * 2^k.  Zero has no limbs; NaN has nan = TRUE.
Base == 2 ^ LimbBits
FloatNaN  == [nan |-> TRUE,  limbs |-> <<>>, e |-> 0]
FloatZero == [nan |-> FALSE, limbs |-> <<>>, e |-> 0]
Float(limbs, k) == [nan |-> FALSE, limbs |-> limbs, e |-> k]

\* A number as a report holds it: an integer, or NaN.
NaN == [nan |-> TRUE, val |-> 0]
Number(v) == [nan |-> FALSE, val |-> v]

\* Scale a / b into [1, 2): the result <<a2, b2, k>> has a/b = (a2/b2) * 2^k.
RECURSIVE Normalize(_, _, _)
Normalize(a, b, k) ==
  IF a < b THEN Normalize(2 * a, b, k - 1)
  ELSE IF a >= 2 * b THEN Normalize(a, 2 * b, k + 1)
  ELSE <<a, b, k>>

\* n further limbs of the quotient r / b by long division, and the remainder.
RECURSIVE QuotientLimbs(_, _, _)
QuotientLimbs(r, b, n) ==
  IF n = 0 THEN [limbs |-> <<>>, rem |-> r]
  ELSE LET v    == r * Base
           rest == QuotientLimbs(v % b, b, n - 1)
       IN  [limbs |-> <<v \div b>> \o rest.limbs, rem |-> rest.rem]

\* limbs + 1 in the same width; carry = 1 when it overflows into the leading 1.
RECURSIVE Increment(_)
Increment(limbs) ==
  IF limbs = <<>> THEN [limbs |-> <<>>, carry |-> 1]
  ELSE LET n    == Len(limbs)
           high == SubSeq(limbs, 1, n - 1)
       IN  IF limbs[n] + 1 < Base
           THEN [limbs |-> Append(high, limbs[n] + 1), carry |-> 0]
           ELSE LET up == Increment(high)
                IN  [limbs |-> Append(up.limbs, 0), carry |-> up.carry]

\* Round to nearest, ties to even: limbs is the truncated fraction, `above`
\* says how the discarded part compares with half a unit in the last place
\* ("less", "half", "more").
RoundNearestEven(limbs, k, above) ==
  LET up == above = "more" \/ (above = "half" /\ limbs[Len(limbs)] % 2 = 1)
  IN  IF ~up THEN Float(limbs, k)
      ELSE LET inc == Increment(limbs)
           IN  \* 1.111..1 + 1ulp = 10.00..0 = 1.00..0 * 2
               Float(inc.limbs, k + inc.carry)

\* The double a / b for naturals a, b (IEEE division is correctly rounded).
FloatDivide(a, b) ==
  IF b = 0 THEN FloatNaN       \* the only b = 0 case of the program is 0 / 0
  ELSE IF a = 0 THEN FloatZero
  ELSE LET n == Normalize(a, b, 0)
           q == QuotientLimbs(n[1] - n[2], n[2], LimbCount)
           above == IF 2 * q.rem > n[2] THEN "more"
                    ELSE IF 2 * q.rem = n[2] /\ q.rem # 0 THEN "half"
                    ELSE "less"
       IN  RoundNearestEven(q.limbs, n[3], above)

\* limbs * c from the least significant limb up: the low limbs of the product
\* and the carry into the leading position.
RECURSIVE TimesSmall(_, _)
TimesSmall(limbs, c) ==
  IF limbs = <<>> THEN [limbs |-> <<>>, carry |-> 0]
  ELSE LET low == TimesSmall(Tail(limbs), c)
           v   == Head(limbs) * c + low.carry
       IN  [limbs |-> <<v % Base>> \o low.limbs, carry |-> v \div Base]

\* Number of bits above the lowest one of a natural v >= 1 (floor(log2 v)).
RECURSIVE Log2(_)
Log2(v) == IF v < 2 THEN 0 ELSE 1 + Log2(v \div 2)

\* limbs shifted right by s bits, `inn` entering from above: the shifted limbs
\* and the s bits that fall off the low end.
RECURSIVE ShiftRight(_, _, _)
ShiftRight(limbs, s, inn) ==
  IF limbs = <<>> THEN [limbs |-> <<>>, out |-> inn]
  ELSE LET v    == inn * Base + Head(limbs)
           rest == ShiftRight(Tail(limbs), s, v % (2 ^ s))
       IN  [limbs |-> <<v \div (2 ^ s)>> \o rest.limbs, out |-> rest.out]

\* The double x * c for a double x and a small natural c > 0.
FloatTimes(x, c) ==
  IF x.nan THEN FloatNaN
  ELSE IF x.limbs = <<>> THEN FloatZero
  ELSE LET p     == TimesSmall(x.limbs, c)
           top   == c + p.carry              \* the leading 1 times c, plus carry
           s     == Log2(top)                \* bits the product is too wide by
           sh    == ShiftRight(p.limbs, s, top % (2 ^ s))
           half  == 2 ^ s
           above == IF 2 * sh.out > half THEN "more"
                    ELSE IF 2 * sh.out = half /\ s > 0 THEN "half"
                    ELSE "less"
       IN  RoundNearestEven(sh.limbs, x.e + s, above)

\* Math.round: the nearest integer, a tie going towards +infinity; NaN stays
\* NaN.  For a double in [0, 2^13) that is the integer part plus the first
\* fraction bit, both of which lie in the leading 1 and the first limb.
MathRound(x) ==
  IF x.nan THEN NaN
  ELSE IF x.limbs = <<>> \/ x.e < -1 THEN Number(0)
  ELSE LET head == Base + x.limbs[1]
       IN  Number(head \div (2 ^ (LimbBits - x.e))
                  + ((head \div (2 ^ (LimbBits - x.e - 1))) % 2))

\* ------------------------------------------------------------ the session
VARIABLES
  pc,                  \* where the caller / runAllTests stands
  browser,             \* this.browser: "undefined", "open" or "closed"
  page,                \* this.page: "undefined", "blank" or "loaded"
  results,             \* this.results: the Findings, in insertion order
  performanceMetrics,  \* this.performanceMetrics
  accessibilityIssues, \* this.accessibilityIssues
  responsiveResults,   \* this.responsiveResults
  dom,                 \* what the audited page answers to the probes' queries
  faults,              \* which browser operations inside the guarded probes fail
  invoked,             \* the probes runAllTests has called, in call order
  pending,             \* the exception travelling through try/catch/finally
  report,              \* the Report generateReport returned last
  outcome,             \* what the caller of runAllTests received
  calls,               \* number of calls the caller made after the first
  openContexts,        \* devices whose browser context was opened and not closed
  axeLoads,            \* where the audit engine was requested from, in order
  problemAreas,        \* the ScreenshotAnalyzer's problemAreas
  returned,            \* what recordProblemArea returned to its caller last
  lastCall,            \* the arguments of that call and what the page answered
  capture,             \* the paint-timing promise testPerformance awaits, and its timer
  timeline             \* the wall-clock times of the navigation and of testPerformance's steps

vars == <<pc, browser, page, results, performanceMetrics, accessibilityIssues,
          responsiveResults, dom, faults, invoked, pending, report, outcome, calls,
          openContexts, axeLoads, problemAreas, returned, lastCall, capture,
                 timeline>>

\* The recorder's part of the state, and the tester's.
recorder == <<problemAreas, returned, lastCall>>
tester == <<pc, browser, page, results, performanceMetrics, accessibilityIssues,
            responsiveResults, dom, faults, invoked, pending, report, outcome, calls,
            openContexts, axeLoads, capture, timeline>>

\* config.devices, with the isMobile flag testResponsive derives from the name
\* and the width (/mobile|iphone|android|s21/i or width <= 420).
Devices == << [name |-> "Desktop 1920x1080",  width |-> 1920, height |-> 1080],
              [name |-> "Desktop 1366x768",   width |-> 1366, height |-> 768],
              [name |-> "Tablet iPad",        width |-> 768,  height |-> 1024],
              [name |-> "Mobile iPhone 12",   width |-> 390,  height |-> 844],
              [name |-> "Mobile Samsung S21", width |-> 360,  height |-> 800] >>

IsMobileName(name) == name \in {"Mobile iPhone 12", "Mobile Samsung S21"}
isMobile(device) == IsMobileName(device.name) \/ device.width <= 420

\* addResult: push one Finding; severity defaults to "medium" at the call sites
\* that omit it, elements is the optional ElementIssue list.
addResult(res, category, test, status, score, severity, elements) ==
  Append(res, [category |-> category, test |-> test, status |-> status,
               score |-> score, severity |-> severity, elements |-> elements])

Undefined == "undefined"

\* The null recordProblemArea returns, in the shape of an ElementIssue.
Null == [selector |-> "null", box |-> "null", severity |-> "null",
         screenshotPath |-> "null"]

\* ------------------------------------------------- the ScreenshotAnalyzer
\* What the page answers to one recordProblemArea call: locator.count()
\* ("throws", "none", "one", "many"), boundingBox() ("throws", "null", "box")
\* and the element screenshot ("ok", "none": the selector matches nothing by
\* then, "throws").
Answer(locate, box, shot) == [locate |-> locate, box |-> box, shot |-> shot]

\* The answers a page gives: the element is found and captured, or one of
\* the three queries fails in one of its ways.
PageAnswers ==
  {Answer("one", "box", "ok"), Answer("many", "box", "ok"),
   Answer("throws", "box", "ok"), Answer("none", "box", "ok"),
   Answer("one", "throws", "ok"), Answer("one", "null", "ok"),
   Answer("one", "box", "none"), Answer("one", "box", "throws")}

NoCall == [category |-> "none", test |-> "none", selector |-> "none",
           takeScreenshot |-> FALSE, page |-> Answer("none", "null", "none")]

\* takeElementScreenshot: the file path, or null when nothing matches or
\* anything in it throws (it catches everything).
takeElementScreenshot(answer) == IF answer.shot = "ok" THEN "path" ELSE "null"

\* storeProblemArea opening a new ProblemArea for every issue.
storeProblemAreaAlwaysNew(areas, category, test, issue) ==
  Append(areas, [category |-> category, test |-> test, issues |-> <<issue>>])

\* storeProblemArea: push the issue onto the first ProblemArea of the same
\* category and test, or append a new ProblemArea holding it.
storeProblemArea(areas, category, test, issue) ==
  LET same == {i \in DOMAIN areas : areas[i].category = category /\ areas[i].test = test}
  IN  IF same # {}
      THEN LET i == CHOOSE k \in same : \A j \in same : k <= j
           IN  [areas EXCEPT ![i].issues = Append(@, issue)]
      ELSE Append(areas, [category |-> category, test |-> test, issues |-> <<issue>>])

\* recordProblemArea opening the ProblemArea of its category and test before
\* it has looked for the element.
recordProblemAreaOpeningFirst(areas, call) ==
  LET opened == IF \E i \in DOMAIN areas :
                     areas[i].category = call.category /\ areas[i].test = call.test
                THEN areas
                ELSE Append(areas, [category |-> call.category, test |-> call.test,
                                    issues |-> <<>>])
      issue == [selector |-> call.selector, box |-> "rounded", severity |-> "high",
                screenshotPath |-> Undefined]
  IN  IF call.page.locate \in {"throws", "none"} \/ call.page.box \in {"throws", "null"}
      THEN [problemAreas |-> opened, returned |-> Null]
      ELSE [problemAreas |-> storeProblemArea(opened, call.category, call.test, issue),
            returned |-> issue]

\* recordProblemArea with a failed element screenshot reaching its own catch.
recordProblemAreaNeedingEvidence(areas, call) ==
  LET answer == call.page
      issue == [selector |-> call.selector, box |-> "rounded", severity |-> "high",
                screenshotPath |-> IF call.takeScreenshot THEN "path" ELSE Undefined]
  IN  IF answer.locate \in {"throws", "none"} \/ answer.box \in {"throws", "null"}
         \/ (call.takeScreenshot /\ answer.shot # "ok")
      THEN [problemAreas |-> areas, returned |-> Null]
      ELSE [problemAreas |-> storeProblemArea(areas, call.category, call.test, issue),
            returned |-> issue]

\* recordProblemArea: everything runs inside one try whose catch returns null.
recordProblemArea(areas, call) ==
  LET answer == call.page
      screenshotPath == IF call.takeScreenshot
                        THEN (IF takeElementScreenshot(answer) = "null" THEN Undefined
                              ELSE takeElementScreenshot(answer))
                        ELSE Undefined
      issue == [selector |-> call.selector, box |-> "rounded", severity |-> "high",
                screenshotPath |-> screenshotPath]
  IN  IF answer.locate \in {"throws", "none"} \/ answer.box \in {"throws", "null"}
      THEN [problemAreas |-> areas, returned |-> Null]
      ELSE [problemAreas |-> storeProblemArea(areas, call.category, call.test, issue),
            returned |-> issue]

\* clearProblemAreas
clearProblemAreas(areas) == <<>>

\* ------------------------------------------------------------- the probes
\* A probe awaits a few browser operations (page.evaluate, locator.count) and
\* pushes Findings between them.  failAt = k > 0 makes the k-th operation
\* reject: the Findings pushed before it stay, and the probe throws.
Completed(res) == [results |-> res, threw |-> FALSE]
Threw(res)     == [results |-> res, threw |-> TRUE]

\* --- the wall clock.  The timeline holds, in order, what happened and when
\* (ms since the tester was constructed): the navigation and the steps of
\* testPerformance.
Event(what, at) == [what |-> what, at |-> at]
Now(tl) == IF tl = <<>> THEN 0 ELSE tl[Len(tl)].at

\* config.timeouts.navigation
NavigationTimeout == 30000

\* page.goto(url, {waitUntil: 'networkidle', timeout}): it returns when the
\* page has loaded, d.loadDuration ms after the call, or rejects at the timeout.
goto(tl, d, reached) ==
  tl \o << Event("goto", Now(tl)),
           IF reached THEN Event("loaded", Now(tl) + d.loadDuration)
           ELSE Event("timeout", Now(tl) + NavigationTimeout) >>

\* The time the last navigation was started at.
NavigationStart(tl) ==
  LET gotos == {i \in DOMAIN tl : tl[i].what = "goto"}
  IN  IF gotos = {} THEN 0
      ELSE tl[CHOOSE i \in gotos : \A j \in gotos : j <= i].at

\* A start timestamp taken when the navigation began.
clockReadsFromNavigation(tl, d) ==
  tl \o << Event("startTime", NavigationStart(tl)), Event("endTime", Now(tl) + d.tick) >>

\* const startTime = Date.now(); const loadTime = Date.now() - startTime;
\* the second read comes d.tick ms after the first.
clockReads(tl, d) ==
  tl \o << Event("startTime", Now(tl)), Event("endTime", Now(tl) + d.tick) >>

\* loadTime: the difference of the two reads at the end of the timeline.
LoadTime(tl) == tl[Len(tl)].at - tl[Len(tl) - 1].at

\* The page.evaluate calls of testPerformance that were made, the one that
\* rejected included (failAt = 0: all three returned).
evaluated(tl, failAt) ==
  tl \o [i \in 1..(IF failAt = 0 THEN 3 ELSE failAt) |-> Event("evaluate", Now(tl))]

\* The load score with the 3000 ms threshold counted as still fast.
LoadScoreInclusive(loadTime) ==
  IF loadTime <= 3000 THEN 10 ELSE IF loadTime < 5000 THEN 7
  ELSE IF loadTime < 8000 THEN 4 ELSE 1

LoadScore(loadTime) ==
  IF loadTime < 3000 THEN 10 ELSE IF loadTime < 5000 THEN 7
  ELSE IF loadTime < 8000 THEN 4 ELSE 1
LoadStatus(loadTime) ==
  IF loadTime < 3000 THEN "pass" ELSE IF loadTime < 5000 THEN "warning" ELSE "fail"

\* The metrics testPerformance stores: loadTime is the difference of two
\* Date.now() reads with nothing awaited between them (d.tick), lcp is
\* lcpResult?.value || 0.
MetricsOf(d) ==
  [loadTime |-> d.tick, largestContentfulPaint |-> d.lcp,
   lcpUrl |-> d.lcpUrl, totalSize |-> d.totalSize]

testPerformance(res, d, failAt) ==
  LET loadTime == d.tick
      lcp == d.lcp
      r1 == addResult(res, "Performance", "Page Load Time", LoadStatus(loadTime),
                      Pts(LoadScore(loadTime)),
                      IF loadTime > 5000 THEN "high" ELSE "medium", Undefined)
      r2 == addResult(r1, "Performance", "Largest Contentful Paint",
                      IF lcp < 2500 THEN "pass" ELSE IF lcp < 4000 THEN "warning" ELSE "fail",
                      Pts(IF lcp < 2500 THEN 10 ELSE IF lcp < 4000 THEN 7 ELSE 4),
                      IF lcp > 4000 THEN "high" ELSE "medium", Undefined)
      r3 == addResult(r2, "Performance", "Total Page Size",
                      IF d.totalSize < 3000000 THEN "pass" ELSE "warning",
                      Pts(IF d.totalSize < 3000000 THEN 10
                          ELSE IF d.totalSize < 5000000 THEN 7 ELSE 4),
                      "low", Undefined)
  IN  \* three evaluate calls, then the metrics and all three Findings
      IF failAt > 0 THEN Threw(res) ELSE Completed(r3)

\* --- the paint-timing capture: the promise the third page.evaluate of
\* testPerformance builds in the page.  promise is "none" (no capture begun),
\* "pending" or "resolved"; value, entry and url are what it resolved with;
\* observing says whether the PerformanceObserver was set up; timer is the
\* setTimeout of 5000 ms ("unset", "armed", "fired").
NotCapturing ==
  [promise |-> "none", value |-> 0, entry |-> FALSE, url |-> FALSE,
   observing |-> FALSE, timer |-> "unset"]

\* resolve({value, entry}): settles a pending promise, and does nothing to a
\* settled one.
resolve(c, value, entry, url) ==
  IF c.promise = "pending"
  THEN [c EXCEPT !.promise = "resolved", !.value = value, !.entry = entry, !.url = url]
  ELSE c

\* The executor without its setTimeout.
beginCaptureUnbounded(supported) ==
  LET started == [NotCapturing EXCEPT !.promise = "pending", !.observing = supported]
  IN  IF supported THEN started ELSE resolve(started, 0, FALSE, FALSE)

\* The executor: try { new PerformanceObserver(..).observe(..) } catch
\* { resolve({value: 0, entry: null}) }, then setTimeout(.., 5000).
beginCapture(supported) ==
  LET started == [NotCapturing EXCEPT !.promise = "pending", !.observing = supported]
      guarded == IF supported THEN started ELSE resolve(started, 0, FALSE, FALSE)
  IN  [guarded EXCEPT !.timer = "armed"]

\* The observer's callback: nothing for an empty list, else the last entry,
\* with value = renderTime || loadTime || 0.
observerCallback(c, entries) ==
  IF entries = <<>> THEN c
  ELSE LET e == entries[Len(entries)]
       IN  resolve(c, IF e.renderTime # 0 THEN e.renderTime ELSE e.loadTime, TRUE, e.url)

\* The timer's callback: resolve({value: 0, entry: null}).
timerCallback(c) == resolve([c EXCEPT !.timer = "fired"], 0, FALSE, FALSE)

\* The lists of largest-contentful-paint entries a page whose LCP is d.lcp
\* hands to the observer: none yet, the final candidate (a text block has no
\* loadTime, a cross-origin image no renderTime), or an earlier candidate
\* ahead of the final one.
PaintEntry(renderTime, loadTime, url) ==
  [renderTime |-> renderTime, loadTime |-> loadTime, url |-> url]
PaintEntries(d) ==
  { <<>>,
    <<PaintEntry(d.lcp, 0, d.lcpUrl)>>,
    <<PaintEntry(0, d.lcp, d.lcpUrl)>>,
    <<PaintEntry(d.lcp \div 2, 0, FALSE), PaintEntry(d.lcp, d.lcp, d.lcpUrl)>> }

\* The page as testPerformance has measured it once the capture resolved:
\* lcp = lcpResult?.value || 0, lcpEntry = lcpResult?.entry || null.
Painted(d, c) == [d EXCEPT !.lcp = c.value, !.lcpUrl = c.entry /\ c.url]

Max(a, b) == IF a >= b THEN a ELSE b
Min(a, b) == IF a <= b THEN a ELSE b

\* testVisualHierarchy taking one point, not two, per image without alt text.
testVisualHierarchyOnePoint(res, d, failAt) ==
  LET r1 == addResult(res, "Visual Design", "H1 Heading",
                      IF d.h1Count = 1 THEN "pass" ELSE "fail",
                      Pts(IF d.h1Count = 1 THEN 10 ELSE 0),
                      IF d.h1Count = 0 THEN "high" ELSE "medium", Undefined)
      hasProperHierarchy == d.h1Count > 0 /\ d.h2Count > 0
      r2 == addResult(r1, "Visual Design", "Heading Hierarchy",
                      IF hasProperHierarchy THEN "pass" ELSE "warning",
                      Pts(IF hasProperHierarchy THEN 10 ELSE 6), "medium", Undefined)
      altScore == IF d.withoutAlt = 0 THEN Pts(10)
                  ELSE Max(0, Pts(10) - d.withoutAlt * Pts(1))
      r3 == addResult(r2, "Visual Design", "Image Alt Text",
                      IF d.withoutAlt = 0 THEN "pass" ELSE "fail", altScore,
                      IF d.withoutAlt > 0 THEN "high" ELSE "low", Undefined)
  IN  IF failAt = 1 THEN Threw(res)
      ELSE IF failAt = 2 THEN Threw(r1)
      ELSE IF failAt = 3 THEN Threw(r2)
      ELSE Completed(r3)

testVisualHierarchy(res, d, failAt) ==
  LET r1 == addResult(res, "Visual Design", "H1 Heading",
                      IF d.h1Count = 1 THEN "pass" ELSE "fail",
                      Pts(IF d.h1Count = 1 THEN 10 ELSE 0),
                      IF d.h1Count = 0 THEN "high" ELSE "medium", Undefined)
      hasProperHierarchy == d.h1Count > 0 /\ d.h2Count > 0
      r2 == addResult(r1, "Visual Design", "Heading Hierarchy",
                      IF hasProperHierarchy THEN "pass" ELSE "warning",
                      Pts(IF hasProperHierarchy THEN 10 ELSE 6), "medium", Undefined)
      altScore == IF d.withoutAlt = 0 THEN Pts(10)
                  ELSE Max(0, Pts(10) - d.withoutAlt * Pts(2))
      r3 == addResult(r2, "Visual Design", "Image Alt Text",
                      IF d.withoutAlt = 0 THEN "pass" ELSE "fail", altScore,
                      IF d.withoutAlt > 0 THEN "high" ELSE "low", Undefined)
  IN  IF failAt = 1 THEN Threw(res)
      ELSE IF failAt = 2 THEN Threw(r1)
      ELSE IF failAt = 3 THEN Threw(r2)
      ELSE Completed(r3)

testNavigation(res, d, failAt) ==
  LET r1 == addResult(res, "Navigation", "Navigation Element",
                      IF d.navExists THEN "pass" ELSE "fail",
                      Pts(IF d.navExists THEN 10 ELSE 0), "high", Undefined)
      r2 == addResult(r1, "Navigation", "Logo/Home Link",
                      IF d.logoExists THEN "pass" ELSE "warning",
                      Pts(IF d.logoExists THEN 10 ELSE 7), "medium", Undefined)
      r3 == addResult(r2, "Navigation", "Menu Items",
                      IF d.menuItems > 0 THEN "pass" ELSE "fail",
                      Pts(IF d.menuItems > 2 THEN 10 ELSE 5), "medium", Undefined)
      r4 == addResult(r3, "Navigation", "Mobile Menu",
                      IF d.mobileMenu THEN "pass" ELSE "warning",
                      Pts(IF d.mobileMenu THEN 10 ELSE 7), "medium", Undefined)
  IN  IF failAt = 1 THEN Threw(res)
      ELSE IF failAt = 2 THEN Threw(r1)
      ELSE IF failAt = 3 THEN Threw(r2)
      ELSE IF failAt = 4 THEN Threw(r3)
      ELSE Completed(r4)

\* avgLineHeight is held in tenths (15 is 1.5).
testReadability(res, d, failAt) ==
  LET r1 == addResult(res, "Readability", "Font Size",
                      IF d.minFontSize >= 16 THEN "pass" ELSE "warning",
                      Pts(IF d.minFontSize >= 16 THEN 10
                          ELSE IF d.minFontSize >= 14 THEN 7 ELSE 4),
                      IF d.minFontSize < 14 THEN "high" ELSE "medium", Undefined)
      r2 == addResult(r1, "Readability", "Line Height",
                      IF d.avgLineHeight >= 15 THEN "pass" ELSE "warning",
                      Pts(IF d.avgLineHeight >= 15 THEN 10
                          ELSE IF d.avgLineHeight >= 13 THEN 7 ELSE 4),
                      "low", Undefined)
      r3 == addResult(r2, "Readability", "Text Overflow",
                      IF d.overflowCount = 0 THEN "pass" ELSE "warning",
                      Pts(IF d.overflowCount = 0 THEN 10 ELSE 7), "medium", Undefined)
  IN  IF failAt = 1 THEN Threw(res)
      ELSE IF failAt = 2 THEN Threw(r2)
      ELSE Completed(r3)

\* testColorContrast without the Math.max(0, ...) floor.
testColorContrastUnfloored(res, d, failAt) ==
  LET n == d.contrastIssues
      r1 == addResult(res, "Visual Design", "Color Contrast (WCAG AA)",
                      IF n = 0 THEN "pass" ELSE "warning", Pts(10) - n * (Unit \div 2),
                      IF n > 5 THEN "high" ELSE "medium", Undefined)
  IN  IF failAt = 1 THEN Threw(res) ELSE Completed(r1)

\* score = 10 - n * 0.5, floored at 0: one half-point per low-contrast element.
testColorContrast(res, d, failAt) ==
  LET n == d.contrastIssues
      score == IF n = 0 THEN Pts(10) ELSE Max(0, Pts(10) - n * (Unit \div 2))
      r1 == addResult(res, "Visual Design", "Color Contrast (WCAG AA)",
                      IF n = 0 THEN "pass" ELSE "warning", score,
                      IF n > 5 THEN "high" ELSE "medium", Undefined)
  IN  IF failAt = 1 THEN Threw(res) ELSE Completed(r1)

testCTAButtons(res, d, failAt) ==
  LET r1 == addResult(res, "Interactive Elements", "Call-to-Action Buttons",
                      IF d.totalCTAs > d.notVisible THEN "pass" ELSE "warning",
                      Pts(IF d.totalCTAs > 0
                          THEN (IF d.notVisible = 0 THEN 10 ELSE 7) ELSE 5),
                      IF d.smallCTAs > 2 THEN "high" ELSE "medium", Undefined)
  IN  IF failAt = 1 THEN Threw(res) ELSE Completed(r1)

testKeyboardNavigation(res, d, failAt) ==
  LET r1 == addResult(res, "Accessibility", "Keyboard Navigation",
                      IF d.totalFocusable > 3 THEN "pass" ELSE "warning",
                      Pts(Min(10, d.totalFocusable)),
                      IF d.withoutVisibleFocus > 5 THEN "high" ELSE "medium", Undefined)
  IN  IF failAt = 1 THEN Threw(res) ELSE Completed(r1)

testSEOBasics(res, d, failAt) ==
  LET descOk == d.hasMetaDescription /\ d.metaDescriptionLength >= 120
                /\ d.metaDescriptionLength <= 160
      r1 == addResult(res, "SEO", "Meta Description",
                      IF d.hasMetaDescription THEN "pass" ELSE "fail",
                      Pts(IF descOk THEN 10 ELSE 7),
                      IF d.hasMetaDescription THEN "low" ELSE "high", Undefined)
      r2 == addResult(r1, "SEO", "Page Title",
                      IF d.titleLength > 0 THEN "pass" ELSE "fail",
                      Pts(IF d.titleLength >= 30 /\ d.titleLength <= 60 THEN 10 ELSE 7),
                      "low", Undefined)
      r3 == addResult(r2, "SEO", "Canonical Tag",
                      IF d.hasCanonical THEN "pass" ELSE "warning",
                      Pts(IF d.hasCanonical THEN 10 ELSE 7), "low", Undefined)
      r4 == addResult(r3, "SEO", "Structured Data",
                      IF d.hasStructuredData THEN "pass" ELSE "warning",
                      Pts(IF d.hasStructuredData THEN 10 ELSE 5), "medium", Undefined)
  IN  IF failAt = 1 THEN Threw(res) ELSE Completed(r4)

testForms(res, d, failAt) ==
  LET none == addResult(res, "Forms", "Form Existence", "pass", Pts(10), "low", Undefined)
      allLabelled == d.inputsWithLabels = d.inputCount
      r1 == addResult(res, "Forms", "Input Labels",
                      IF allLabelled THEN "pass" ELSE "fail",
                      Pts(IF allLabelled THEN 10
                          ELSE IF d.inputsWithLabels > 0 THEN 5 ELSE 0),
                      IF d.inputsWithLabels < d.inputCount THEN "high" ELSE "low",
                      Undefined)
      r2 == addResult(r1, "Forms", "Required Fields", "pass", Pts(10), "low", Undefined)
      r3 == addResult(r2, "Forms", "Placeholder Text",
                      IF d.placeholderCount > 0 THEN "pass" ELSE "warning",
                      Pts(IF d.placeholderCount > 0 THEN 10 ELSE 7), "low", Undefined)
  IN  IF failAt = 1 THEN Threw(res)
      ELSE IF d.formCount = 0 THEN Completed(none)
      ELSE Completed(r3)

testInteractiveElements(res, d, failAt) ==
  LET small == d.smallTouchTargets
      r1 == addResult(res, "Interactive Elements", "Buttons",
                      IF d.buttonCount > 0 THEN "pass" ELSE "warning",
                      Pts(IF d.buttonCount > 0 THEN 10 ELSE 7), "low", Undefined)
      r2 == addResult(r1, "Interactive Elements", "Links",
                      IF d.linkCount > 0 THEN "pass" ELSE "warning",
                      Pts(IF d.linkCount > 0 THEN 10 ELSE 7), "low", Undefined)
      r3 == addResult(r2, "Interactive Elements", "Touch Target Size",
                      IF small = 0 THEN "pass" ELSE "warning",
                      Pts(IF small = 0 THEN 10 ELSE IF small < 3 THEN 7 ELSE 4),
                      IF small > 3 THEN "high" ELSE "medium", Undefined)
  IN  IF failAt = 1 THEN Threw(res) ELSE Completed(r3)

\* --- testResponsive: one guarded iteration per configured device.
\* The issues found on one device with layout l (what its own page answers).
DeviceIssues(device, l) ==
  (IF l.hasHorizontalScroll THEN <<"Horizontal scrollbar detected">> ELSE <<>>)
  \o (IF l.textTooSmall > 5 THEN <<"text elements smaller than 14px">> ELSE <<>>)
  \o (IF isMobile(device) /\ l.smallTargets > 0
      THEN <<"touch targets smaller than 44x44">> ELSE <<>>)

\* The browser operations of one iteration, in order; the two closes come
\* after the result and the Finding have been pushed.
BeforePush == {"newContext", "newPage", "goto", "evaluate", "screenshot"}
AfterPush  == {"pageClose", "contextClose"}

\* The operations that reject with the device's context created and its
\* ctx.close() not reached, or not completed.
LeavesContextOpen == {"newPage", "goto", "evaluate", "screenshot", "pageClose",
                      "contextClose"}

\* One iteration of the device loop: st is [results, responsiveResults,
\* openContexts]; fault is "none" or the operation that rejects for this device.
ResponsiveDevice(st, device, l, fault) ==
  LET issues == DeviceIssues(device, l)
      n == Len(issues)
      pushed == Append(st.responsiveResults,
                       [device |-> device.name, width |-> device.width,
                        height |-> device.height, issues |-> issues])
      scored == addResult(st.results, "Responsive Design", device.name,
                          IF n = 0 THEN "pass" ELSE "warning",
                          Pts(IF n = 0 THEN 10 ELSE IF n = 1 THEN 7 ELSE 5),
                          IF n > 1 THEN "medium" ELSE "low", Undefined)
      degraded(res) == addResult(res, "Responsive Design", device.name, "warning",
                                 Pts(5), "low", Undefined)
      open == IF fault \in LeavesContextOpen
              THEN Append(st.openContexts, device.name) ELSE st.openContexts
  IN  IF fault \in BeforePush
      THEN [results |-> degraded(st.results), responsiveResults |-> st.responsiveResults,
            openContexts |-> open]
      ELSE IF fault \in AfterPush
      THEN [results |-> degraded(scored), responsiveResults |-> pushed,
            openContexts |-> open]
      ELSE [results |-> scored, responsiveResults |-> pushed, openContexts |-> open]

\* A device loop inside one try: the first device that fails ends it.
RECURSIVE ResponsiveLoopInsideTry(_, _, _, _)
ResponsiveLoopInsideTry(st, i, layouts, deviceFaults) ==
  IF i > Len(Devices) THEN st
  ELSE IF deviceFaults[i] # "none"
  THEN ResponsiveDevice(st, Devices[i], layouts[i], deviceFaults[i])
  ELSE ResponsiveLoopInsideTry(ResponsiveDevice(st, Devices[i], layouts[i], "none"),
                               i + 1, layouts, deviceFaults)

RECURSIVE ResponsiveLoop(_, _, _, _)
ResponsiveLoop(st, i, layouts, deviceFaults) ==
  IF i > Len(Devices) THEN st
  ELSE ResponsiveLoop(ResponsiveDevice(st, Devices[i], layouts[i], deviceFaults[i]),
                      i + 1, layouts, deviceFaults)

testResponsive(res, rr, ctxs, d, f) ==
  ResponsiveLoop([results |-> res, responsiveResults |-> rr, openContexts |-> ctxs],
                 1, d.layouts, f.devices)

\* --- testAccessibility: everything inside one outer try/catch.
\* The rule ids ruleRecommendations has an entry for.
RecommendedRules == {"button-name", "aria-input-field-name", "color-contrast",
                     "scrollable-region-focusable"}

IsCritical(issue) == issue.severity \in {"critical", "serious"}

RECURSIVE CountCritical(_)
CountCritical(issues) ==
  IF issues = <<>> THEN 0
  ELSE (IF IsCritical(Head(issues)) THEN 1 ELSE 0) + CountCritical(Tail(issues))

\* violations.forEach: push an AccessibilityIssue per violation and a failing
\* Finding for the recommended rules.  A violation without tags (wellFormed
\* FALSE) makes the callback throw before it pushes anything.
RECURSIVE MapViolations(_, _)
MapViolations(st, violations) ==
  IF violations = <<>> THEN st
  ELSE LET v == Head(violations)
           issues == Append(st.issues, [type |-> v.id, severity |-> v.impact])
           res == IF v.id \in RecommendedRules
                  THEN addResult(st.results, "Accessibility", v.id, "fail", Pts(0),
                                 "high", Undefined)
                  ELSE st.results
       IN  IF ~v.wellFormed THEN [st EXCEPT !.threw = TRUE]
           ELSE MapViolations([results |-> res, issues |-> issues, threw |-> FALSE],
                              Tail(violations))

\* The four guarded checks after the engine, then the overall Finding.
AccessibilityChecks(res, issues, d, axe) ==
  LET r1 == IF axe.keyboard = "fail"
            THEN addResult(res, "Accessibility", "Keyboard Navigation", "warning",
                           Pts(5), "low", Undefined)
            ELSE addResult(res, "Accessibility", "Keyboard Navigation",
                           IF d.focusTargets > 1 THEN "pass" ELSE "fail",
                           Pts(IF d.focusTargets > 1 THEN 10 ELSE 0),
                           IF d.focusTargets > 1 THEN "low" ELSE "high", Undefined)
      r2 == IF axe.skipLink = "fail"
            THEN addResult(r1, "Accessibility", "Skip Link", "warning", Pts(5), "low",
                           Undefined)
            ELSE addResult(r1, "Accessibility", "Skip Link",
                           IF d.hasSkipLink THEN "pass" ELSE "warning",
                           Pts(IF d.hasSkipLink THEN 10 ELSE 7),
                           IF d.hasSkipLink THEN "low" ELSE "medium", Undefined)
      r3 == IF axe.lang = "fail"
            THEN addResult(r2, "Accessibility", "Language Attribute", "warning", Pts(5),
                           "low", Undefined)
            ELSE addResult(r2, "Accessibility", "Language Attribute",
                           IF d.hasLang THEN "pass" ELSE "fail",
                           Pts(IF d.hasLang THEN 10 ELSE 0), "high", Undefined)
      r4 == IF axe.landmarks = "fail"
            THEN addResult(r3, "Accessibility", "ARIA Landmarks", "warning", Pts(5),
                           "low", Undefined)
            ELSE addResult(r3, "Accessibility", "ARIA Landmarks",
                           IF d.hasMainLandmark THEN "pass" ELSE "warning",
                           Pts(IF d.hasMainLandmark THEN 10 ELSE 7), "medium", Undefined)
      criticalCount == CountCritical(issues)
  IN  addResult(r4, "Accessibility", "Overall A11y Issues",
                IF criticalCount = 0 THEN "pass"
                ELSE IF criticalCount <= 2 THEN "warning" ELSE "fail",
                Pts(IF criticalCount = 0 THEN 10 ELSE IF criticalCount <= 2 THEN 7
                    ELSE IF criticalCount <= 5 THEN 4 ELSE 1),
                IF criticalCount > 2 THEN "high" ELSE "medium", Undefined)

\* The sources the engine is requested from: the CDN url, and the local
\* package when the CDN load threw or left window.axe undefined.
AxeLoads(axe) == IF axe.cdn = "ok" THEN <<"cdn">> ELSE <<"cdn", "local">>

\* The engine is tried from the CDN first and from the local package second.
AxeLoaded(axe) == axe.cdn = "ok" \/ axe.local = "ok"

\* testAccessibility giving up when the engine is missing.
testAccessibilityWithoutEngine(res, issues, d, f) ==
  LET mapped == MapViolations([results |-> res, issues |-> issues, threw |-> FALSE],
                              d.violations)
      limited == addResult(res, "Accessibility", "axe-core", "warning", Pts(5), "low",
                           Undefined)
  IN  IF ~AxeLoaded(f.axe)
      THEN [results |-> limited, accessibilityIssues |-> issues]
      ELSE [results |-> AccessibilityChecks(mapped.results, mapped.issues, d, f.axe),
            accessibilityIssues |-> mapped.issues]

\* testAccessibility with the catch around the engine alone: the checks go
\* on after the degraded Finding.
testAccessibilityCheckingOn(res, issues, d, f) ==
  LET axe == f.axe
      caught(r) == addResult(r, "Accessibility", "Overall A11y Issues", "warning",
                             Pts(5), "low", Undefined)
      mapped == MapViolations([results |-> res, issues |-> issues, threw |-> FALSE],
                              d.violations)
      limited == addResult(res, "Accessibility", "axe-core", "warning", Pts(5), "low",
                           Undefined)
  IN  IF ~AxeLoaded(axe)
      THEN [results |-> AccessibilityChecks(limited, issues, d, axe),
            accessibilityIssues |-> issues]
      ELSE IF axe.run = "fail"
      THEN [results |-> AccessibilityChecks(caught(res), issues, d, axe),
            accessibilityIssues |-> issues]
      ELSE IF mapped.threw
      THEN [results |-> AccessibilityChecks(caught(mapped.results), mapped.issues, d, axe),
            accessibilityIssues |-> mapped.issues]
      ELSE [results |-> AccessibilityChecks(mapped.results, mapped.issues, d, axe),
            accessibilityIssues |-> mapped.issues]

testAccessibility(res, issues, d, f) ==
  LET axe == f.axe
      caught(r) == addResult(r, "Accessibility", "Overall A11y Issues", "warning",
                             Pts(5), "low", Undefined)
      mapped == MapViolations([results |-> res, issues |-> issues, threw |-> FALSE],
                              d.violations)
      limited == addResult(res, "Accessibility", "axe-core", "warning", Pts(5), "low",
                           Undefined)
  IN  IF ~AxeLoaded(axe)
      THEN [results |-> AccessibilityChecks(limited, issues, d, axe),
            accessibilityIssues |-> issues]
      ELSE IF axe.run = "fail"
      THEN [results |-> caught(res), accessibilityIssues |-> issues]
      ELSE IF mapped.threw
      THEN [results |-> caught(mapped.results), accessibilityIssues |-> mapped.issues]
      ELSE [results |-> AccessibilityChecks(mapped.results, mapped.issues, d, axe),
            accessibilityIssues |-> mapped.issues]

\* for (const selector of selectors) { try { await recordProblemArea(page,
\* category, test, selector, .., true) } catch (e) {} }: the page gives each
\* selector the same answer.
RECURSIVE recordEach(_, _, _, _, _)
recordEach(areas, category, test, selectors, answer) ==
  IF selectors = <<>> THEN areas
  ELSE LET call == [category |-> category, test |-> test, selector |-> Head(selectors),
                    takeScreenshot |-> TRUE, page |-> answer]
       IN  recordEach(recordProblemArea(areas, call).problemAreas, category, test,
                      Tail(selectors), answer)

\* The selectors the probes hand to the recorder: of the first three images
\* without alt text, of the first two low-contrast elements, of the first
\* small CTA button.
missingAltSelectors(d) == SubSeq(<<"img-1", "img-2", "img-3">>, 1, Min(3, d.withoutAlt))
lowContrastSelectors(d) == SubSeq(<<"text-1", "text-2">>, 1, Min(2, d.contrastIssues))
smallCTASelectors(d) == SubSeq(<<"cta-1">>, 1, Min(1, d.smallCTAs))

\* ---------------------------------------------------------- the aggregator
Recommendation(kind, count, names) == [kind |-> kind, count |-> count, names |-> names]

RECURSIVE DeviceNames(_)
DeviceNames(rr) ==
  IF rr = <<>> THEN <<>> ELSE <<Head(rr).device>> \o DeviceNames(Tail(rr))

\* highPriorityIssues.slice(0, 3).forEach: one itemized entry per Finding.
RECURSIVE Itemized(_)
Itemized(found) ==
  IF found = <<>> THEN <<>>
  ELSE <<Recommendation("item", 0, <<Head(found).category, Head(found).test>>)>>
       \o Itemized(Tail(found))

\* The recommendations with a load time of exactly 3000 ms counted as slow.
generateRecommendationsFromThreshold(res, metrics, issues, rr) ==
  LET IsHigh(r)    == r.severity = "high" /\ r.status = "fail"
      IsMedium(r)  == r.severity = "medium" /\ r.status = "fail"
      IsAlt(r)     == r.test = "Image Alt Text" /\ r.status = "fail"
      HasIssues(r) == Len(r.issues) > 0
      high   == SelectSeq(res, IsHigh)
      medium == SelectSeq(res, IsMedium)
      devs   == SelectSeq(rr, HasIssues)
      crit   == CountCritical(issues)
      One(cond, rec) == IF cond THEN <<rec>> ELSE <<>>
  IN  One(Len(high) > 0, Recommendation("high-priority", Len(high), <<>>))
      \o Itemized(SubSeq(high, 1, Min(3, Len(high))))
      \o One(metrics.loadTime >= 3000, Recommendation("load-time", 0, <<>>))
      \o One(metrics.largestContentfulPaint > 2500, Recommendation("lcp", 0, <<>>))
      \o One(metrics.lcpUrl, Recommendation("lcp-resource", 0, <<>>))
      \o One(SelectSeq(res, IsAlt) # <<>>, Recommendation("alt-text", 0, <<>>))
      \o One(Len(devs) > 0, Recommendation("responsive", Len(devs), DeviceNames(devs)))
      \o One(crit > 0, Recommendation("accessibility", crit, <<>>))
      \o One(Len(medium) > 5, Recommendation("medium-priority", Len(medium), <<>>))
      \o << Recommendation("general", 0, <<"analytics">>),
            Recommendation("general", 0, <<"user-testing">>),
            Recommendation("general", 0, <<"action-plan">>) >>

generateRecommendations(res, metrics, issues, rr) ==
  LET IsHigh(r)    == r.severity = "high" /\ r.status = "fail"
      IsMedium(r)  == r.severity = "medium" /\ r.status = "fail"
      IsAlt(r)     == r.test = "Image Alt Text" /\ r.status = "fail"
      HasIssues(r) == Len(r.issues) > 0
      high   == SelectSeq(res, IsHigh)
      medium == SelectSeq(res, IsMedium)
      devs   == SelectSeq(rr, HasIssues)
      crit   == CountCritical(issues)
      One(cond, rec) == IF cond THEN <<rec>> ELSE <<>>
  IN  One(Len(high) > 0, Recommendation("high-priority", Len(high), <<>>))
      \o Itemized(SubSeq(high, 1, Min(3, Len(high))))
      \o One(metrics.loadTime > 3000, Recommendation("load-time", 0, <<>>))
      \o One(metrics.largestContentfulPaint > 2500, Recommendation("lcp", 0, <<>>))
      \o One(metrics.lcpUrl, Recommendation("lcp-resource", 0, <<>>))
      \o One(SelectSeq(res, IsAlt) # <<>>, Recommendation("alt-text", 0, <<>>))
      \o One(Len(devs) > 0, Recommendation("responsive", Len(devs), DeviceNames(devs)))
      \o One(crit > 0, Recommendation("accessibility", crit, <<>>))
      \o One(Len(medium) > 5, Recommendation("medium-priority", Len(medium), <<>>))
      \o << Recommendation("general", 0, <<"analytics">>),
            Recommendation("general", 0, <<"user-testing">>),
            Recommendation("general", 0, <<"action-plan">>) >>

\* results.reduce((sum, r) => sum + r.score, 0): scores are multiples of 0.5
\* no larger than 10, so the double sum is exact.
RECURSIVE SumScores(_)
SumScores(res) == IF res = <<>> THEN 0 ELSE Head(res).score + SumScores(Tail(res))

\* An aggregate normalised by the best score found instead of by 10.
OverallScoreRelative(res) ==
  LET best == CHOOSE b \in {res[i].score : i \in DOMAIN res} \cup {0} :
                \A i \in DOMAIN res : res[i].score <= b
  IN  MathRound(FloatTimes(FloatDivide(SumScores(res), Len(res) * best), 100))

\* Math.round((totalScore / maxScore) * 100) in double arithmetic; both
\* operands of the division are given in half-points, which leaves the
\* quotient as it is.
OverallScore(res) ==
  LET totalScore == SumScores(res)
      maxScore   == Len(res) * Pts(10)
  IN  MathRound(FloatTimes(FloatDivide(totalScore, maxScore), 100))

\* A Report that carries the recorder's ProblemAreas along.
generateReportWithEvidence(res, metrics, issues, rr) ==
  [made            |-> TRUE,
   overallScore    |-> OverallScore(res),
   performance     |-> metrics,
   recommendations |-> generateRecommendations(res, metrics, issues, rr),
   problemAreas    |-> problemAreas]

\* What generateReport computes.  The Report's results, accessibility and
\* responsive fields are the session's own arrays (no copy is made), so they are
\* read through the session variables: see ReturnedReport.
generateReport(res, metrics, issues, rr) ==
  [made            |-> TRUE,
   overallScore    |-> OverallScore(res),
   performance     |-> metrics,
   recommendations |-> generateRecommendations(res, metrics, issues, rr)]

\* The initial value of this.performanceMetrics (all zero, no LCP entry).
InitialMetrics ==
  [loadTime |-> 0, largestContentfulPaint |-> 0, lcpUrl |-> FALSE, totalSize |-> 0]

\* No Report has been returned yet.
NoReport == [made |-> FALSE, overallScore |-> NaN, performance |-> InitialMetrics,
             recommendations |-> <<>>]

\* The Report object as its holder sees it now.
ReturnedReport ==
  [overallScore |-> report.overallScore, results |-> results,
   performance |-> report.performance, accessibility |-> accessibilityIssues,
   responsive |-> responsiveResults, recommendations |-> report.recommendations]

\* ------------------------------------------------------- calling a probe
\* The sequence with the accessibility audit run before the responsive one.
ProbeOrderAuditFirst ==
  <<"testPerformance", "testVisualHierarchy", "testColorContrast", "testNavigation",
    "testReadability", "testCTAButtons", "testForms", "testInteractiveElements",
    "testKeyboardNavigation", "testSEOBasics", "testAccessibility", "testResponsive">>

\* The order of the twelve awaits in runAllTests.
ProbeOrder ==
  << "testPerformance", "testVisualHierarchy", "testColorContrast", "testNavigation",
     "testReadability", "testCTAButtons", "testForms", "testInteractiveElements",
     "testKeyboardNavigation", "testSEOBasics", "testResponsive", "testAccessibility" >>

\* Awaited browser operations of a probe whose rejection leaves the probe:
\* testResponsive and testAccessibility catch everything themselves.
Operations(name) ==
  CASE name = "testPerformance"     -> 3
    [] name = "testVisualHierarchy" -> 3
    [] name = "testNavigation"      -> 4
    [] name = "testReadability"     -> 2
    [] name \in {"testResponsive", "testAccessibility"} -> 0
    [] OTHER -> 1

\* One probe method applied to the session state s =
\* [results, performanceMetrics, accessibilityIssues, responsiveResults,
\*  openContexts, axeLoads, timeline, problemAreas].
CallProbe(name, s, d, f, failAt) ==
  LET plain(out) == [s EXCEPT !.results = out.results] @@ [threw |-> out.threw]
      \* the recorder is called once the probe's own queries have all returned
      recorded(out, category, test, selectors) ==
        IF out.threw THEN plain(out)
        ELSE [plain(out) EXCEPT !.problemAreas =
                recordEach(s.problemAreas, category, test, selectors, d.evidence)]
  IN  CASE name = "testPerformance" ->
             LET read == clockReads(s.timeline, d)
                 measured == [d EXCEPT !.tick = LoadTime(read)]
                 out == testPerformance(s.results, measured, failAt)
                 timed == [plain(out) EXCEPT !.timeline = evaluated(read, failAt)]
             IN  IF out.threw THEN timed
                 ELSE [timed EXCEPT !.performanceMetrics = MetricsOf(measured)]
        [] name = "testVisualHierarchy" ->
             recorded(testVisualHierarchy(s.results, d, failAt),
                      "Visual Design", "Image Alt Text", missingAltSelectors(d))
        [] name = "testColorContrast" ->
             recorded(testColorContrast(s.results, d, failAt),
                      "Visual Design", "Color Contrast", lowContrastSelectors(d))
        [] name = "testNavigation" -> plain(testNavigation(s.results, d, failAt))
        [] name = "testReadability" -> plain(testReadability(s.results, d, failAt))
        [] name = "testCTAButtons" ->
             recorded(testCTAButtons(s.results, d, failAt),
                      "Interactive Elements", "CTA Buttons Size", smallCTASelectors(d))
        [] name = "testForms" -> plain(testForms(s.results, d, failAt))
        [] name = "testInteractiveElements" ->
             plain(testInteractiveElements(s.results, d, failAt))
        [] name = "testKeyboardNavigation" ->
             plain(testKeyboardNavigation(s.results, d, failAt))
        [] name = "testSEOBasics" -> plain(testSEOBasics(s.results, d, failAt))
        [] name = "testResponsive" ->
             LET out == testResponsive(s.results, s.responsiveResults, s.openContexts,
                                       d, f)
             IN  [s EXCEPT !.results = out.results,
                           !.responsiveResults = out.responsiveResults,
                           !.openContexts = out.openContexts]
                 @@ [threw |-> FALSE]
        [] name = "testAccessibility" ->
             LET out == testAccessibility(s.results, s.accessibilityIssues, d, f)
             IN  [s EXCEPT !.results = out.results,
                           !.accessibilityIssues = out.accessibilityIssues,
                           !.axeLoads = s.axeLoads \o AxeLoads(f.axe)]
                 @@ [threw |-> FALSE]

Session ==
  [results |-> results, performanceMetrics |-> performanceMetrics,
   accessibilityIssues |-> accessibilityIssues, responsiveResults |-> responsiveResults,
   openContexts |-> openContexts, axeLoads |-> axeLoads, timeline |-> timeline,
   problemAreas |-> problemAreas]

\* ------------------------------------------------ pages and fault plans
\* A page every check passes on.
BasePage ==
  [loadDuration |-> 400, tick |-> 0, lcp |-> 1200, lcpUrl |-> FALSE, totalSize |-> 1000000,
   h1Count |-> 1, h2Count |-> 2, withoutAlt |-> 0,
   contrastIssues |-> 0,
   navExists |-> TRUE, logoExists |-> TRUE, menuItems |-> 3, mobileMenu |-> TRUE,
   minFontSize |-> 16, avgLineHeight |-> 15, overflowCount |-> 0,
   totalCTAs |-> 1, notVisible |-> 0, smallCTAs |-> 0,
   formCount |-> 0, inputCount |-> 0, inputsWithLabels |-> 0, placeholderCount |-> 0,
   buttonCount |-> 1, linkCount |-> 3, smallTouchTargets |-> 0,
   totalFocusable |-> 10, withoutVisibleFocus |-> 0,
   hasMetaDescription |-> TRUE, metaDescriptionLength |-> 140, titleLength |-> 40,
   hasCanonical |-> TRUE, hasStructuredData |-> TRUE,
   layouts |-> [i \in 1..Len(Devices) |->
                  [hasHorizontalScroll |-> FALSE, textTooSmall |-> 0, smallTargets |-> 0]],
   evidence |-> Answer("one", "box", "ok"),
   violations |-> <<>>, focusTargets |-> 5, hasSkipLink |-> TRUE, hasLang |-> TRUE,
   hasMainLandmark |-> TRUE]

Counts == 0..MaxCount

\* Date.now() is the wall clock: its two reads in testPerformance are as a
\* rule 0 or 1 ms apart, and a suspended process or a stepped clock puts any
\* distance between them.  The distances around each threshold are kept.
Ticks == {0, 1, 2999, 3000, 3001, 4999, 5000, 5001, 7999, 8000}

\* How long page.goto takes until the network is idle: a fast page, pages
\* around the 3000 ms recommendation, a slow page.
LoadDurations == {400, 2999, 3001, 6000, 29000}

\* The pages the model is run on: BasePage changed in what one probe reads.
PerformancePages ==
  {[BasePage EXCEPT !.tick = t, !.lcp = l, !.lcpUrl = u, !.totalSize = z] :
     t \in Ticks, l \in {0, 2499, 2500, 4000, 4001}, u \in BOOLEAN,
     z \in {2999999, 3000000, 5000000}}
  \cup {[BasePage EXCEPT !.loadDuration = n, !.tick = t] :
          n \in LoadDurations, t \in Ticks}
VisualPages ==
  {[BasePage EXCEPT !.h1Count = h, !.h2Count = g, !.withoutAlt = n] :
     h \in 0..2, g \in 0..1, n \in Counts}
ContrastPages == {[BasePage EXCEPT !.contrastIssues = n] : n \in 0..(2 * MaxCount)}
\* The menu items are the links inside the nav element: none without one.
NavigationPages ==
  {p \in {[BasePage EXCEPT !.navExists = a, !.logoExists = b, !.menuItems = n,
                           !.mobileMenu = c] :
            a \in BOOLEAN, b \in BOOLEAN, n \in 0..3, c \in BOOLEAN} :
     p.navExists \/ p.menuItems = 0}
ReadabilityPages ==
  {[BasePage EXCEPT !.minFontSize = a, !.avgLineHeight = b, !.overflowCount = n] :
     a \in {13, 14, 16}, b \in {12, 13, 15}, n \in 0..1}
\* The buttons the interactive probe counts include every CTA candidate.
CTAPages ==
  {p \in {[BasePage EXCEPT !.totalCTAs = n, !.notVisible = v, !.smallCTAs = k,
                           !.buttonCount = Max(1, n)] :
            n \in 0..3, v \in 0..3, k \in 0..3} :
     p.notVisible <= p.totalCTAs /\ p.smallCTAs <= p.totalCTAs}
FormPages ==
  {p \in {[BasePage EXCEPT !.formCount = 1, !.inputCount = n, !.inputsWithLabels = k,
                           !.placeholderCount = q] : n \in 0..2, k \in 0..2, q \in 0..2} :
     p.inputsWithLabels <= p.inputCount /\ p.placeholderCount <= p.inputCount}
\* Small touch targets are counted among the buttons.
InteractivePages ==
  {p \in {[BasePage EXCEPT !.buttonCount = a, !.linkCount = b, !.smallTouchTargets = n,
                           !.totalCTAs = Min(a, 1), !.menuItems = b, !.totalFocusable = a + b] :
            a \in 0..4, b \in 0..1, n \in 0..4} :
     p.smallTouchTargets <= p.buttonCount}
\* Links and buttons are focusable, so a page with n focusable elements has at
\* most n of them.
KeyboardPages ==
  {p \in {[BasePage EXCEPT !.totalFocusable = n, !.withoutVisibleFocus = k,
                           !.linkCount = Min(n, 3), !.menuItems = Min(n, 3),
                           !.buttonCount = IF n > 3 THEN 1 ELSE 0,
                           !.totalCTAs = IF n > 3 THEN 1 ELSE 0,
                           !.focusTargets = Min(n, 5) + 1] :
            n \in Counts, k \in {0, 6}} :
     p.withoutVisibleFocus <= p.totalFocusable}
\* Without the meta tag the description is the empty string.
SEOPages ==
  {p \in {[BasePage EXCEPT !.hasMetaDescription = a, !.metaDescriptionLength = n,
                           !.titleLength = k, !.hasCanonical = b, !.hasStructuredData = c] :
            a \in BOOLEAN, n \in {0, 119, 120, 160, 161}, k \in {0, 29, 30, 60, 61},
            b \in BOOLEAN, c \in BOOLEAN} :
     ~p.hasMetaDescription => p.metaDescriptionLength = 0}

Layout(scroll, small, targets) ==
  [hasHorizontalScroll |-> scroll, textTooSmall |-> small, smallTargets |-> targets]
Layouts == {Layout(a, n, k) : a \in BOOLEAN, n \in {5, 6}, k \in 0..1}
\* Every device laid out alike, or one device differing from the clean layout.
ResponsivePages ==
  {[BasePage EXCEPT !.layouts = [i \in 1..Len(Devices) |-> l]] : l \in Layouts}
  \cup {[BasePage EXCEPT !.layouts[i] = l] : i \in 1..Len(Devices), l \in Layouts}

Violation(id, impact, wellFormed) == [id |-> id, impact |-> impact, wellFormed |-> wellFormed]
ViolationKinds ==
  { Violation("color-contrast", "serious", TRUE), Violation("image-alt", "critical", TRUE),
    Violation("region", "moderate", TRUE), Violation("button-name", "minor", TRUE),
    Violation("list", "serious", FALSE) }

RECURSIVE Repeat(_, _)
Repeat(x, n) == IF n = 0 THEN <<>> ELSE <<x>> \o Repeat(x, n - 1)

\* Up to two violations of any kind, or up to MaxCount critical ones.
ViolationLists ==
  {<<>>} \cup {<<v>> : v \in ViolationKinds}
  \cup {<<v, w>> : v \in ViolationKinds, w \in ViolationKinds}
  \cup {Repeat(Violation("image-alt", "critical", TRUE), n) : n \in Counts}
AccessibilityPages ==
  {[BasePage EXCEPT !.violations = v] : v \in ViolationLists}
  \cup {[BasePage EXCEPT !.focusTargets = n, !.hasSkipLink = a, !.hasLang = b,
                         !.hasMainLandmark = c] :
          n \in {1, 5}, a \in BOOLEAN, b \in BOOLEAN, c \in BOOLEAN}

\* Pages with elements for the recorder, answering its queries in each way.
EvidencePages ==
  {[BasePage EXCEPT !.withoutAlt = n, !.contrastIssues = c, !.smallCTAs = k,
                    !.evidence = a] :
     n \in {0, 2, 4}, c \in {0, 1, 3}, k \in 0..1, a \in PageAnswers}

Pages ==
  EvidencePages \cup PerformancePages \cup VisualPages \cup ContrastPages \cup NavigationPages
  \cup ReadabilityPages \cup CTAPages \cup FormPages \cup InteractivePages
  \cup KeyboardPages \cup SEOPages \cup ResponsivePages \cup AccessibilityPages

\* Which browser operations of the two guarded probes reject.
NoFaults ==
  [devices |-> [i \in 1..Len(Devices) |-> "none"],
   axe |-> [cdn |-> "ok", local |-> "ok", run |-> "ok", keyboard |-> "ok",
            skipLink |-> "ok", lang |-> "ok", landmarks |-> "ok"]]
DeviceFaults == BeforePush \cup AfterPush
Answers == {"ok", "fail"}
\* One device failing; every device failing alike; the engine's loads and
\* run failing; one of the four later checks failing.
FaultPlans ==
  {NoFaults}
  \cup {[NoFaults EXCEPT !.devices[i] = x] : i \in 1..Len(Devices), x \in DeviceFaults}
  \cup {[NoFaults EXCEPT !.devices = [i \in 1..Len(Devices) |-> x]] : x \in DeviceFaults}
  \cup {[NoFaults EXCEPT !.axe.cdn = a, !.axe.local = b, !.axe.run = c] :
          a \in Answers, b \in Answers, c \in Answers}
  \cup {[NoFaults EXCEPT !.axe.keyboard = a, !.axe.skipLink = b, !.axe.lang = c,
                         !.axe.landmarks = e] : a \in Answers, b \in Answers, c \in Answers, e \in Answers}

\* A page with some violations, for the fault plans to meet.
FaultPage ==
  [BasePage EXCEPT !.violations = << Violation("color-contrast", "serious", TRUE),
                                     Violation("image-alt", "critical", TRUE) >>]

Scenarios ==
  {<<d, NoFaults>> : d \in Pages} \cup {<<FaultPage, f>> : f \in FaultPlans}

\* ------------------------------------------------------------ runAllTests
\* A freshly constructed tester whose caller is about to await runAllTests.
Init ==
  /\ pc = "start"
  /\ browser = "undefined"
  /\ page = "undefined"
  /\ results = <<>>
  /\ performanceMetrics = InitialMetrics
  /\ accessibilityIssues = <<>>
  /\ responsiveResults = <<>>
  /\ \E sc \in Scenarios : dom = sc[1] /\ faults = sc[2]
  /\ invoked = <<>>
  /\ pending = "none"
  /\ report = NoReport
  /\ outcome = "none"
  /\ calls = 0
  /\ openContexts = <<>>
  /\ axeLoads = <<>>
  /\ problemAreas = <<>>
  /\ returned = Null
  /\ lastCall = NoCall
  /\ capture = NotCapturing
  /\ timeline = <<>>

\* initialize(): launch, newContext, newPage; `failing` is the step that
\* rejects ("none": all three succeed).  The fields are assigned as it goes:
\* a field whose assignment was not reached keeps the value b or pg it had
\* ("undefined" on a new tester).
initialize(b, pg, failing) ==
  CASE failing = "launch"     -> [browser |-> b, page |-> pg,
                                  error |-> "BrowserLaunchError"]
    [] failing = "newContext" -> [browser |-> "open", page |-> pg,
                                  error |-> "ContextError"]
    [] failing = "newPage"    -> [browser |-> "open", page |-> pg,
                                  error |-> "PageError"]
    [] OTHER                  -> [browser |-> "open", page |-> "blank", error |-> "none"]

\* cleanup(): await this.browser.close().  With this.browser never assigned
\* the property access throws a TypeError.
cleanup(b) ==
  IF b = "undefined" THEN [browser |-> b, error |-> "TypeError"]
  ELSE [browser |-> "closed", error |-> "none"]

\* try { await this.initialize();
Initialize ==
  /\ pc = "start"
  /\ \E failing \in {"none", "launch", "newContext", "newPage"} :
       LET out == initialize(browser, page, failing)
       IN  /\ browser' = out.browser
           /\ page' = out.page
           /\ pending' = out.error
           /\ pc' = IF out.error = "none" THEN "goto" ELSE "catch"
  /\ UNCHANGED <<results, performanceMetrics, accessibilityIssues, responsiveResults,
                 dom, faults, invoked, report, outcome, calls,
                 openContexts, axeLoads, problemAreas, returned, lastCall, capture,
                 timeline>>

\* A goto whose rejection is swallowed: the probes run on the blank page.
NavigateContinuing ==
  /\ pc = "goto"
  /\ \E reached \in BOOLEAN :
       /\ page' = IF reached THEN "loaded" ELSE page
       /\ timeline' = goto(timeline, dom, reached)
       /\ pending' = IF reached THEN "none" ELSE "NavigationError"
       /\ pc' = "probes"
  /\ UNCHANGED <<browser, results, performanceMetrics, accessibilityIssues,
                 responsiveResults, dom, faults, invoked, report, outcome, calls,
                 openContexts, axeLoads, problemAreas, returned, lastCall, capture>>

\* await this.page.goto(config.url, {waitUntil: 'networkidle', timeout})
Navigate ==
  /\ pc = "goto"
  /\ \E reached \in BOOLEAN :
       /\ page' = IF reached THEN "loaded" ELSE page
       /\ timeline' = goto(timeline, dom, reached)
       /\ pending' = IF reached THEN "none" ELSE "NavigationError"
       /\ pc' = IF reached THEN "probes" ELSE "catch"
  /\ UNCHANGED <<browser, results, performanceMetrics, accessibilityIssues,
                 responsiveResults, dom, faults, invoked, report, outcome, calls,
                 openContexts, axeLoads, problemAreas, returned, lastCall, capture>>

\* The pc after the probe at position i of ProbeOrder was awaited.
AfterProbe(i, threw) ==
  IF threw THEN "catch" ELSE IF i = Len(ProbeOrder) THEN "generateReport" ELSE "probes"

\* await this.testX(): the next probe of the sequence, run to completion or
\* to the browser operation that rejects.
RunProbe ==
  /\ pc = "probes"
  /\ LET i == Len(invoked) + 1
         name == ProbeOrder[i]
     IN  \E failAt \in 0..Operations(name) :
           LET out == CallProbe(name, Session, dom, faults, failAt)
           IN  /\ invoked' = Append(invoked, name)
               /\ results' = out.results
               /\ performanceMetrics' = out.performanceMetrics
               /\ accessibilityIssues' = out.accessibilityIssues
               /\ responsiveResults' = out.responsiveResults
               /\ openContexts' = out.openContexts
               /\ axeLoads' = out.axeLoads
               /\ timeline' = out.timeline
               /\ problemAreas' = out.problemAreas
               /\ pending' = IF out.threw THEN "ProbeError" ELSE "none"
               /\ pc' = AfterProbe(i, out.threw)
  /\ UNCHANGED <<browser, page, dom, faults, report, outcome, calls,
                 returned, lastCall, capture>>

\* const report = await this.generateReport(); return report;
GenerateReport ==
  /\ pc = "generateReport"
  /\ report' = generateReport(results, performanceMetrics, accessibilityIssues,
                              responsiveResults)
  /\ pc' = "finally"
  /\ UNCHANGED <<browser, page, results, performanceMetrics, accessibilityIssues,
                 responsiveResults, dom, faults, invoked, pending, outcome, calls,
                 openContexts, axeLoads, problemAreas, returned, lastCall, capture,
                 timeline>>

\* A catch block that rethrows with no finally block behind it.
CatchWithoutFinally ==
  /\ pc = "catch"
  /\ outcome' = pending
  /\ pc' = "done"
  /\ UNCHANGED <<browser, page, results, performanceMetrics, accessibilityIssues,
                 responsiveResults, dom, faults, invoked, pending, report, calls,
                 openContexts, axeLoads, problemAreas, returned, lastCall, capture,
                 timeline>>

\* catch (error) { console.error(...); throw error; }
Catch ==
  /\ pc = "catch"
  /\ pc' = "finally"
  /\ UNCHANGED <<browser, page, results, performanceMetrics, accessibilityIssues,
                 responsiveResults, dom, faults, invoked, pending, report, outcome, calls,
                 openContexts, axeLoads, problemAreas, returned, lastCall, capture,
                 timeline>>

\* A catch block that logs the error and does not rethrow it.
SettledSwallowing(pendingError, cleanupError) ==
  IF cleanupError # "none" THEN cleanupError ELSE "report"

\* What the caller gets once the finally block has run: an exception thrown
\* by cleanup replaces the pending one and a pending return value.
Settled(pendingError, cleanupError) ==
  IF cleanupError # "none" THEN cleanupError
  ELSE IF pendingError # "none" THEN pendingError
  ELSE "report"

\* finally { await this.cleanup(); } and the promise settles.
Finally ==
  /\ pc = "finally"
  /\ LET out == cleanup(browser)
     IN  /\ browser' = out.browser
         /\ outcome' = Settled(pending, out.error)
  /\ pc' = "done"
  /\ UNCHANGED <<page, results, performanceMetrics, accessibilityIssues,
                 responsiveResults, dom, faults, invoked, pending, report, calls,
                 openContexts, axeLoads, problemAreas, returned, lastCall, capture,
                 timeline>>

Next == Initialize \/ Navigate \/ RunProbe \/ GenerateReport \/ Catch \/ Finally

Spec == Init /\ [][Next]_vars

\* ------------------------------------------------- calling the methods directly
\* The public methods are also called one by one (the quick-test runner does:
\* initialize, page.goto, some probes, generateReport, cleanup).  pc is
\* "caller" between such calls and "reported" right after generateReport.
DirectProbes == {"testColorContrast", "testKeyboardNavigation", "testCTAButtons"}

\* The pages of the direct-call runs: any number of low-contrast elements
\* with any number of focusable ones.
CallPages ==
  {[p EXCEPT !.contrastIssues = n] : p \in KeyboardPages, n \in Counts}

InitCalls ==
  /\ pc = "caller"
  /\ browser = "undefined"
  /\ page = "undefined"
  /\ results = <<>>
  /\ performanceMetrics = InitialMetrics
  /\ accessibilityIssues = <<>>
  /\ responsiveResults = <<>>
  /\ dom \in CallPages
  /\ faults = NoFaults
  /\ invoked = <<>>
  /\ pending = "none"
  /\ report = NoReport
  /\ outcome = "none"
  /\ calls = 0
  /\ openContexts = <<>>
  /\ axeLoads = <<>>
  /\ problemAreas = <<>>
  /\ returned = Null
  /\ lastCall = NoCall
  /\ capture = NotCapturing
  /\ timeline = <<>>

AtCaller == pc \in {"caller", "reported"}

\* await tester.initialize()
CallInitialize ==
  /\ AtCaller
  /\ browser = "undefined"
  /\ \E failing \in {"none", "launch", "newContext", "newPage"} :
       LET out == initialize(browser, page, failing)
       IN  browser' = out.browser /\ page' = out.page
  /\ pc' = "caller"
  /\ UNCHANGED <<results, performanceMetrics, accessibilityIssues, responsiveResults,
                 dom, faults, invoked, pending, report, outcome, calls,
                 openContexts, axeLoads, problemAreas, returned, lastCall, capture,
                 timeline>>

\* await tester['page'].goto(url, ...), once in a session
CallGoto ==
  /\ AtCaller
  /\ browser = "open"
  /\ page = "blank"
  /\ timeline = <<>>
  /\ \E reached \in BOOLEAN :
       /\ page' = IF reached THEN "loaded" ELSE page
       /\ timeline' = goto(timeline, dom, reached)
  /\ pc' = "caller"
  /\ UNCHANGED <<browser, results, performanceMetrics, accessibilityIssues,
                 responsiveResults, dom, faults, invoked, pending, report, outcome, calls,
                 openContexts, axeLoads, problemAreas, returned, lastCall, capture>>

\* await tester.testX() on the loaded page
CallProbeDirectly ==
  /\ AtCaller
  /\ browser = "open"
  /\ page = "loaded"
  /\ calls < MaxCalls
  /\ \E name \in DirectProbes, failAt \in 0..1 :
       LET out == CallProbe(name, Session, dom, faults, failAt)
       IN  /\ results' = out.results
           /\ performanceMetrics' = out.performanceMetrics
           /\ accessibilityIssues' = out.accessibilityIssues
           /\ responsiveResults' = out.responsiveResults
           /\ openContexts' = out.openContexts
           /\ axeLoads' = out.axeLoads
           /\ timeline' = out.timeline
           /\ problemAreas' = out.problemAreas
  /\ calls' = calls + 1
  /\ pc' = "caller"
  /\ UNCHANGED <<browser, page, dom, faults, invoked, pending, report, outcome,
                 returned, lastCall, capture>>

\* const report = await tester.generateReport(): needs no browser
CallGenerateReport ==
  /\ AtCaller
  /\ report' = generateReport(results, performanceMetrics, accessibilityIssues,
                              responsiveResults)
  /\ pc' = "reported"
  /\ UNCHANGED <<browser, page, results, performanceMetrics, accessibilityIssues,
                 responsiveResults, dom, faults, invoked, pending, outcome, calls,
                 openContexts, axeLoads, problemAreas, returned, lastCall, capture,
                 timeline>>

\* await tester.cleanup()
CallCleanup ==
  /\ AtCaller
  /\ browser = "open"
  /\ browser' = cleanup(browser).browser
  /\ pc' = "caller"
  /\ UNCHANGED <<page, results, performanceMetrics, accessibilityIssues,
                 responsiveResults, dom, faults, invoked, pending, report, outcome, calls,
                 openContexts, axeLoads, problemAreas, returned, lastCall, capture,
                 timeline>>

NextCalls ==
  CallInitialize \/ CallGoto \/ CallProbeDirectly \/ CallGenerateReport \/ CallCleanup

SpecCalls == InitCalls /\ [][NextCalls]_vars

\* ------------------------------------------- auditing a page step by step
\* A caller that runs the probes the recommendations are drawn from, any of
\* them more than once, and asks for the Report in between.
AuditProbes == {"testPerformance", "testVisualHierarchy", "testResponsive",
                "testAccessibility"}

\* A slow page, a fast page whose LCP element has a URL, pages at and just
\* over both performance thresholds, and a page with failing checks.
AuditPages ==
  { BasePage,
    [BasePage EXCEPT !.tick = 5000, !.lcp = 4000, !.lcpUrl = TRUE],
    [BasePage EXCEPT !.lcpUrl = TRUE],
    [BasePage EXCEPT !.tick = 3000, !.lcp = 2500, !.lcpUrl = TRUE],
    [BasePage EXCEPT !.tick = 3001, !.lcp = 2501],
    [BasePage EXCEPT !.h1Count = 0, !.withoutAlt = 2,
                     !.violations = << Violation("color-contrast", "serious", TRUE),
                                       Violation("image-alt", "critical", TRUE),
                                       Violation("button-name", "minor", TRUE) >>,
                     !.layouts[2] = Layout(TRUE, 6, 0),
                     !.layouts[4] = Layout(FALSE, 0, 1)] }

InitAudit ==
  /\ pc = "caller"
  /\ browser = "undefined"
  /\ page = "undefined"
  /\ results = <<>>
  /\ performanceMetrics = InitialMetrics
  /\ accessibilityIssues = <<>>
  /\ responsiveResults = <<>>
  /\ dom \in AuditPages
  /\ faults = NoFaults
  /\ invoked = <<>>
  /\ pending = "none"
  /\ report = NoReport
  /\ outcome = "none"
  /\ calls = 0
  /\ openContexts = <<>>
  /\ axeLoads = <<>>
  /\ problemAreas = <<>>
  /\ returned = Null
  /\ lastCall = NoCall
  /\ capture = NotCapturing
  /\ timeline = <<>>

\* await tester.testX() for one of the audit probes
CallAuditProbe ==
  /\ AtCaller
  /\ browser = "open"
  /\ page = "loaded"
  /\ calls < MaxCalls
  /\ \E name \in AuditProbes, failAt \in 0..1 :
       LET out == CallProbe(name, Session, dom, faults, failAt)
       IN  /\ results' = out.results
           /\ performanceMetrics' = out.performanceMetrics
           /\ accessibilityIssues' = out.accessibilityIssues
           /\ responsiveResults' = out.responsiveResults
           /\ openContexts' = out.openContexts
           /\ axeLoads' = out.axeLoads
           /\ timeline' = out.timeline
           /\ problemAreas' = out.problemAreas
  /\ calls' = calls + 1
  /\ pc' = "caller"
  /\ UNCHANGED <<browser, page, dom, faults, invoked, pending, report, outcome,
                 returned, lastCall, capture>>

NextAudit ==
  CallInitialize \/ CallGoto \/ CallAuditProbe \/ CallGenerateReport \/ CallCleanup

SpecAudit == InitAudit /\ [][NextAudit]_vars

\* ------------------------------------------------- using the recorder
\* The categories and tests recorded under: two pairs of one category, two
\* pairs of one test.
RecordKeys ==
  { <<"Visual Design", "Image Alt Text">>, <<"Visual Design", "CTA Buttons Size">>,
    <<"Interactive Elements", "CTA Buttons Size">> }
Selectors == {"#hero", ".cta"}
\* The calls made: a screenshot is asked for, or not asked for on a page
\* that answers everything.
RecordCalls ==
  {[category |-> k[1], test |-> k[2], selector |-> sel, takeScreenshot |-> TRUE,
    page |-> a] : k \in RecordKeys, sel \in Selectors, a \in PageAnswers}
  \cup {[category |-> k[1], test |-> k[2], selector |-> sel, takeScreenshot |-> FALSE,
         page |-> Answer("one", "box", "ok")] : k \in RecordKeys, sel \in Selectors}

RECURSIVE CountIssues(_)
CountIssues(areas) ==
  IF areas = <<>> THEN 0 ELSE Len(Head(areas).issues) + CountIssues(Tail(areas))

\* A new ScreenshotAnalyzer beside a new tester.
InitRecorder ==
  /\ pc = "caller"
  /\ browser = "undefined"
  /\ page = "undefined"
  /\ results = <<>>
  /\ performanceMetrics = InitialMetrics
  /\ accessibilityIssues = <<>>
  /\ responsiveResults = <<>>
  /\ dom = BasePage
  /\ faults = NoFaults
  /\ invoked = <<>>
  /\ pending = "none"
  /\ report = NoReport
  /\ outcome = "none"
  /\ calls = 0
  /\ openContexts = <<>>
  /\ axeLoads = <<>>
  /\ problemAreas = <<>>
  /\ returned = Null
  /\ lastCall = NoCall
  /\ capture = NotCapturing
  /\ timeline = <<>>

\* await analyzer.recordProblemArea(page, category, test, selector, ...)
RecordProblemArea ==
  /\ CountIssues(problemAreas) < MaxRecords
  /\ \E call \in RecordCalls :
       LET out == recordProblemArea(problemAreas, call)
       IN  /\ problemAreas' = out.problemAreas
           /\ returned' = out.returned
           /\ lastCall' = call
  /\ UNCHANGED tester

\* analyzer.clearProblemAreas()
ClearProblemAreas ==
  /\ problemAreas' = clearProblemAreas(problemAreas)
  /\ UNCHANGED <<returned, lastCall>>
  /\ UNCHANGED tester

NextRecorder == RecordProblemArea \/ ClearProblemAreas

SpecRecorder == InitRecorder /\ [][NextRecorder]_vars

\* --------------------------------------- testPerformance, step by step
\* The caller awaits testPerformance on the loaded page; the probe is followed
\* through its paint-timing capture: pc is "capturing" while the third
\* page.evaluate is awaited.
PaintPages ==
  {[BasePage EXCEPT !.tick = t, !.lcp = l, !.lcpUrl = u] :
     t \in {0, 1}, l \in {0, 1200, 2500, 4001}, u \in BOOLEAN}

InitPaint ==
  /\ pc = "caller"
  /\ browser = "undefined"
  /\ page = "undefined"
  /\ results = <<>>
  /\ performanceMetrics = InitialMetrics
  /\ accessibilityIssues = <<>>
  /\ responsiveResults = <<>>
  /\ dom \in PaintPages
  /\ faults = NoFaults
  /\ invoked = <<>>
  /\ pending = "none"
  /\ report = NoReport
  /\ outcome = "none"
  /\ calls = 0
  /\ openContexts = <<>>
  /\ axeLoads = <<>>
  /\ problemAreas = <<>>
  /\ returned = Null
  /\ lastCall = NoCall
  /\ capture = NotCapturing
  /\ timeline = <<>>

\* tester.testPerformance() up to its third page.evaluate: the two clock
\* reads and the two evaluate calls before it, one of which may reject.
BeginPerformance ==
  /\ AtCaller
  /\ browser = "open"
  /\ page = "loaded"
  /\ calls < MaxCalls
  /\ \E failAt \in 0..2, supported \in BOOLEAN :
       /\ timeline' = evaluated(clockReads(timeline, dom), failAt)
       /\ IF failAt > 0
          THEN pc' = "caller" /\ capture' = capture
          ELSE pc' = "capturing" /\ capture' = beginCapture(supported)
  /\ calls' = calls + 1
  /\ UNCHANGED <<browser, page, results, performanceMetrics, accessibilityIssues,
                 responsiveResults, dom, faults, invoked, pending, report, outcome,
                 openContexts, axeLoads, problemAreas, returned, lastCall>>

\* The browser calls the observer with the entries it has.
ObserverReports ==
  /\ pc = "capturing"
  /\ capture.observing
  /\ \E entries \in PaintEntries(dom) : capture' = observerCallback(capture, entries)
  /\ UNCHANGED <<pc, browser, page, results, performanceMetrics, accessibilityIssues,
                 responsiveResults, dom, faults, invoked, pending, report, outcome, calls,
                 openContexts, axeLoads, problemAreas, returned, lastCall, timeline>>

\* 5000 ms after the executor ran, the page's timer fires.
TimerFires ==
  /\ pc = "capturing"
  /\ capture.timer = "armed"
  /\ capture' = timerCallback(capture)
  /\ UNCHANGED <<pc, browser, page, results, performanceMetrics, accessibilityIssues,
                 responsiveResults, dom, faults, invoked, pending, report, outcome, calls,
                 openContexts, axeLoads, problemAreas, returned, lastCall, timeline>>

\* The promise has resolved: page.evaluate returns, and testPerformance stores
\* the metrics and pushes its three Findings.
FinishPerformance ==
  /\ pc = "capturing"
  /\ capture.promise = "resolved"
  /\ LET out == CallProbe("testPerformance", Session, Painted(dom, capture), faults, 0)
     IN  /\ results' = out.results
         /\ performanceMetrics' = out.performanceMetrics
  /\ pc' = "caller"
  /\ UNCHANGED <<browser, page, accessibilityIssues, responsiveResults, dom, faults,
                 invoked, pending, report, outcome, calls, openContexts, axeLoads,
                 problemAreas, returned, lastCall, capture,
                 timeline>>

NextPaint ==
  CallInitialize \/ CallGoto \/ BeginPerformance \/ ObserverReports \/ TimerFires
  \/ FinishPerformance

\* The page's event loop runs its timers, and an await whose promise has
\* resolved resumes.
SpecPaint ==
  InitPaint /\ [][NextPaint]_vars /\ WF_vars(TimerFires) /\ WF_vars(FinishPerformance)

\* ------------------------------------------- running the same tester again
\* A caller that awaits runAllTests on a tester whose earlier runAllTests has
\* settled; nothing of the tester is constructed anew.
\* The pages and fault plans the tester is run again on.
RerunScenarios ==
  { <<BasePage, NoFaults>>, <<FaultPage, NoFaults>> }
  \cup {<<FaultPage, [NoFaults EXCEPT !.devices[i] = x]>> :
          i \in {1, Len(Devices)}, x \in {"goto", "contextClose"}}
  \cup {<<FaultPage, [NoFaults EXCEPT !.axe.cdn = "fail", !.axe.local = a, !.axe.run = c]>> :
          a \in Answers, c \in Answers}

InitRerun == Init /\ <<dom, faults>> \in RerunScenarios

\* A runAllTests that starts from a session emptied of what it recorded.
RunAllTestsAgainEmptied ==
  /\ pc = "done"
  /\ calls < MaxReruns
  /\ pc' = "start"
  /\ invoked' = <<>>
  /\ pending' = "none"
  /\ outcome' = "none"
  /\ calls' = calls + 1
  /\ results' = <<>>
  /\ accessibilityIssues' = <<>>
  /\ responsiveResults' = <<>>
  /\ performanceMetrics' = InitialMetrics
  /\ UNCHANGED <<browser, page, dom, faults, report, openContexts, axeLoads,
                 problemAreas, returned, lastCall, capture, timeline>>

\* await tester.runAllTests() once more: the method assigns none of the
\* session's fields before it calls initialize.
RunAllTestsAgain ==
  /\ pc = "done"
  /\ calls < MaxReruns
  /\ pc' = "start"
  /\ invoked' = <<>>
  /\ pending' = "none"
  /\ outcome' = "none"
  /\ calls' = calls + 1
  /\ UNCHANGED <<browser, page, results, performanceMetrics, accessibilityIssues,
                 responsiveResults, dom, faults, report, openContexts, axeLoads,
                 problemAreas, returned, lastCall, capture, timeline>>

NextRerun ==
  Initialize \/ Navigate \/ RunProbe \/ GenerateReport \/ Catch \/ Finally
  \/ RunAllTestsAgain

SpecRerun == InitRerun /\ [][NextRerun]_vars

\* ------------------------------------------------------------- properties
ClaimedOrder ==
  <<"testPerformance", "testVisualHierarchy", "testColorContrast", "testNavigation",
    "testReadability", "testCTAButtons", "testForms", "testInteractiveElements",
    "testKeyboardNavigation", "testSEOBasics", "testResponsive", "testAccessibility">>

IsPrefix(s, t) == Len(s) <= Len(t) /\ \A i \in DOMAIN s : s[i] = t[i]

IsDegraded(finding) == finding.status = "warning" /\ finding.severity = "low"

\* C1: when a probe throws after navigation succeeded, the run ends with a
\* Report returned to the caller, all twelve probes invoked, and a degraded
\* Finding (status warning, severity low) among the Findings.
C1_ProbeFailureIsDegraded ==
  (pc = "done" /\ pending = "ProbeError") =>
    /\ outcome = "report"
    /\ report.made
    /\ invoked = ClaimedOrder
    /\ \E i \in DOMAIN results : IsDegraded(results[i])

\* C2: whenever runAllTests has settled, by return or by exception, a browser
\* that was launched has been closed.
C2_BrowserReleased == pc = "done" => browser # "open"

C2_ReleasedAfterProbeFailure ==
  pc = "done" /\ pending = "ProbeError" /\ browser = "closed"

\* C3: when the browser cannot be launched, no probe runs, no Finding is
\* appended and the caller of runAllTests receives the launch error.
C3_LaunchErrorReachesCaller ==
  (pc = "done" /\ browser = "undefined") =>
    /\ outcome = "BrowserLaunchError"
    /\ invoked = <<>>
    /\ results = <<>>

\* C4 as stated: a navigation that times out ends in a Report with a numeric
\* overallScore returned to the caller and a warning Finding recorded.
C4_NavigationTimeoutYieldsReport ==
  (pc = "done" /\ pending = "NavigationError") =>
    /\ outcome = "report"
    /\ report.made
    /\ ~report.overallScore.nan
    /\ \E i \in DOMAIN results : results[i].status = "warning"

\* C4: a navigation that times out produces no warning Finding and no
\* Report: the browser is closed and runAllTests throws the navigation error.
C4_NavigationTimeoutThrows ==
  (pc = "done" /\ pending = "NavigationError") =>
    /\ outcome = "NavigationError"
    /\ ~report.made
    /\ browser = "closed"
    /\ \A i \in DOMAIN results : results[i].status # "warning"

C4_TimedOutAndClosed ==
  pc = "done" /\ pending = "NavigationError" /\ browser = "closed" /\ page = "blank"

\* C5: from the moment navigation fails, no probe has been invoked and no
\* Finding has been appended, and runAllTests settles with the navigation error.
C5_NavigationFailureIsFatal ==
  pending = "NavigationError" =>
    /\ invoked = <<>>
    /\ results = <<>>
    /\ pc \in {"catch", "finally", "done"}
    /\ (pc = "done" => outcome = "NavigationError")

C5_FailedWithNavigationError ==
  outcome = "NavigationError" /\ invoked = <<>> /\ results = <<>>

\* C6: the probes are invoked in the order performance, visual hierarchy,
\* color contrast, navigation, readability, CTA buttons, forms, interactive
\* elements, keyboard navigation, SEO, responsive, accessibility, none twice,
\* and a Report is made only after the last one has completed.
C6_ProbesInOrder ==
  /\ IsPrefix(invoked, ClaimedOrder)
  /\ (pc \in {"generateReport"} \/ report.made) =>
       (invoked = ClaimedOrder /\ pending = "none")

C6_AllProbesThenReport == report.made /\ invoked = ClaimedOrder /\ outcome = "report"

\* C7: right after generateReport on a non-empty Findings sequence, the
\* overallScore is the integer nearest to 100 * sum / (10 * count) (a half
\* rounds up) and lies in 0..100.  Scores are in half-points, so the exact
\* quotient is 5 * SumScores / count.
C7_ScoreIsRoundedMean ==
  (pc = "reported" /\ results # <<>>) =>
    LET n     == report.overallScore.val
        sum   == SumScores(results)
        count == Len(results)
    IN  /\ ~report.overallScore.nan
        /\ n \in 0..100
        /\ 2 * count * n <= 10 * sum + count
        /\ 10 * sum + count < 2 * count * (n + 1)

\* C8: right after generateReport on an empty Findings sequence, the
\* overallScore is a number in 0..100.
C8_EmptyFindingsScoreIsDefined ==
  (pc = "reported" /\ results = <<>>) =>
    (~report.overallScore.nan /\ report.overallScore.val \in 0..100)

\* C9: every Finding in the list has a score from 0 to 10 (0 to 20 half-points),
\* whatever the page holds and wherever a probe was left.
C9_ScoresInRange ==
  \A i \in DOMAIN results : results[i].score >= 0 /\ results[i].score <= Pts(10)

C9_ContrastScoreFloored ==
  /\ dom.contrastIssues > 20
  /\ \E i \in DOMAIN results :
       results[i].test = "Color Contrast (WCAG AA)" /\ results[i].score = 0

\* C10: right after generateReport on a non-empty Findings sequence, the
\* overallScore of the same sequence with one score replaced by any higher
\* value up to 10 is not below the overallScore reported.
C10_RaisingAScoreNeverLowers ==
  (pc = "reported" /\ results # <<>>) =>
    \A i \in DOMAIN results :
      \A higher \in (results[i].score + 1)..Pts(10) :
        LET raised == OverallScore([results EXCEPT ![i].score = higher])
        IN  /\ ~raised.nan
            /\ ~report.overallScore.nan
            /\ raised.val >= report.overallScore.val

C10_ReportedBelowTie ==
  /\ pc = "reported"
  /\ Len(results) = 2
  /\ SumScores(results) = 23
  /\ report.overallScore = Number(57)

\* C11: the Page Load Time Finding of a run whose load time is t has status
\* pass and score 10 for t < 3000, warning and 7 for 3000 <= t < 5000, fail
\* and 4 for 5000 <= t < 8000, fail and 1 for t >= 8000.
C11_LoadTimeClasses ==
  \A i \in DOMAIN results :
    results[i].test = "Page Load Time" =>
      LET t == performanceMetrics.loadTime
          f == results[i]
      IN  /\ t = dom.tick
          /\ t < 3000 => (f.status = "pass" /\ f.score = Pts(10))
          /\ (3000 <= t /\ t < 5000) => (f.status = "warning" /\ f.score = Pts(7))
          /\ (5000 <= t /\ t < 8000) => (f.status = "fail" /\ f.score = Pts(4))
          /\ t >= 8000 => (f.status = "fail" /\ f.score = Pts(1))

C11_ExactlyThreeSeconds ==
  /\ performanceMetrics.loadTime = 3000
  /\ \E i \in DOMAIN results :
       /\ results[i].test = "Page Load Time"
       /\ results[i].status = "warning"
       /\ results[i].score = Pts(7)

\* C12: a recordProblemArea call whose selector matches nothing returns null
\* and leaves the ProblemAreas as they were: none created, none modified.
C12_NoMatchRecordsNothing ==
  [][\A call \in RecordCalls :
       (call.page.locate = "none" /\ lastCall' = call
        /\ problemAreas' = recordProblemArea(problemAreas, call).problemAreas
        /\ returned' = recordProblemArea(problemAreas, call).returned)
       => (returned' = Null /\ problemAreas' = problemAreas)]_vars

C12_NoMatchBesideAnArea ==
  lastCall.page.locate = "none" /\ returned = Null /\ problemAreas # <<>>

Ran(name) == \E i \in DOMAIN invoked : invoked[i] = name

\* C13: once testResponsive has run, it has not thrown and every device whose
\* own operations all succeeded has its entry in ResponsiveResults, wherever
\* in the list the failing device stands.
C13_OtherDevicesStillTested ==
  Ran("testResponsive") =>
    /\ (invoked[Len(invoked)] = "testResponsive" => pending = "none")
    /\ \A i \in DOMAIN Devices :
         faults.devices[i] = "none" =>
           \E j \in DOMAIN responsiveResults :
             responsiveResults[j].device = Devices[i].name

C13_FirstDeviceFailedOthersListed ==
  /\ Ran("testResponsive")
  /\ faults.devices[1] = "goto"
  /\ Len(responsiveResults) = Len(Devices) - 1

\* C14: testResponsive leaves no browsing context open behind it.
C14_NoContextLeftOpen == openContexts = <<>>

\* C15: once testResponsive has run on a fresh session, ResponsiveResults
\* holds one entry per configured device, in configuration order.
C15_OneResultPerDevice ==
  Ran("testResponsive") =>
    /\ Len(responsiveResults) = Len(Devices)
    /\ \A i \in DOMAIN Devices : responsiveResults[i].device = Devices[i].name

\* C16: the audit engine is requested from the local asset first, and from
\* the remote URL only after the local load failed.
C16_LocalAssetFirst ==
  axeLoads # <<>> =>
    /\ axeLoads[1] = "local"
    /\ (faults.axe.local = "ok" => axeLoads = <<"local">>)
    /\ (faults.axe.local = "fail" => axeLoads = <<"local", "cdn">>)

\* C17: once testAccessibility has run with the engine loadable from neither
\* source, it has not thrown, it has added no AccessibilityIssue, and the
\* Findings end with one warning Finding 'axe-core' followed by the focus
\* traversal, skip link, lang attribute, landmark and overall Findings.
C17_MissingEngineDegrades ==
  (Ran("testAccessibility") /\ faults.axe.cdn = "fail" /\ faults.axe.local = "fail") =>
    LET n == Len(results)
    IN  /\ pending = "none"
        /\ accessibilityIssues = <<>>
        /\ n >= 6
        /\ [i \in 1..6 |-> results[n - 6 + i].test]
             = <<"axe-core", "Keyboard Navigation", "Skip Link", "Language Attribute",
                 "ARIA Landmarks", "Overall A11y Issues">>
        /\ results[n - 5].status = "warning"
        /\ Cardinality({i \in DOMAIN results : results[i].test = "axe-core"}) = 1

C17_RanWithoutEngine ==
  /\ Ran("testAccessibility")
  /\ faults.axe.cdn = "fail" /\ faults.axe.local = "fail"
  /\ \E i \in DOMAIN results : results[i].test = "axe-core"

\* The entries of the Report's recommendations of one kind.
Entries(kind) ==
  {i \in DOMAIN report.recommendations : report.recommendations[i].kind = kind}

HighFailing == {i \in DOMAIN results :
                  results[i].severity = "high" /\ results[i].status = "fail"}
MediumFailing == {i \in DOMAIN results :
                    results[i].severity = "medium" /\ results[i].status = "fail"}
DevicesWithIssues == {i \in DOMAIN responsiveResults :
                        Len(responsiveResults[i].issues) > 0}
SeriousIssues == {i \in DOMAIN accessibilityIssues :
                    accessibilityIssues[i].severity \in {"critical", "serious"}}

\* The place of each kind of entry in the list.
Rank(kind) ==
  CASE kind = "high-priority" -> 0
    [] kind = "item" -> 1
    [] kind = "load-time" -> 2
    [] kind = "lcp" -> 3
    [] kind = "lcp-resource" -> 4
    [] kind = "alt-text" -> 5
    [] kind = "responsive" -> 6
    [] kind = "accessibility" -> 7
    [] kind = "medium-priority" -> 8
    [] kind = "general" -> 9

\* What the claimed list and the list of the code have in common: the order
\* of the kinds, the itemized Findings, and the conditions of the load-time,
\* LCP, alt-text, responsive and medium-priority entries.
CommonRecommendations ==
  LET recs == report.recommendations
      high == HighFailing
      \* the itemized entries are the first three high-severity failures
      firstHigh == {i \in high : Cardinality({j \in high : j < i}) < 3}
  IN  /\ \A i \in DOMAIN recs : \A j \in DOMAIN recs :
           i < j => Rank(recs[i].kind) <= Rank(recs[j].kind)
      /\ Cardinality(Entries("item")) = Cardinality(firstHigh)
      /\ \A i \in Entries("item") :
           \E k \in firstHigh :
             /\ recs[i].names = <<results[k].category, results[k].test>>
             /\ Cardinality({j \in Entries("item") : j < i})
                  = Cardinality({j \in firstHigh : j < k})
      /\ Cardinality(Entries("load-time"))
           = IF performanceMetrics.loadTime > 3000 THEN 1 ELSE 0
      /\ Cardinality(Entries("lcp"))
           = IF performanceMetrics.largestContentfulPaint > 2500 THEN 1 ELSE 0
      /\ Cardinality(Entries("alt-text"))
           = IF \E i \in DOMAIN results :
                   results[i].test = "Image Alt Text" /\ results[i].status = "fail"
             THEN 1 ELSE 0
      /\ Cardinality(Entries("responsive")) = IF DevicesWithIssues # {} THEN 1 ELSE 0
      /\ \A i \in Entries("responsive") :
           {recs[i].names[k] : k \in DOMAIN recs[i].names}
             = {responsiveResults[k].device : k \in DevicesWithIssues}
      /\ Cardinality(Entries("medium-priority"))
           = IF Cardinality(MediumFailing) > 5 THEN 1 ELSE 0
      /\ Cardinality(Entries("general")) = 3

\* C18 as stated: right after generateReport, the recommendations hold only
\* the itemized high-severity failures (under their heading), the load-time,
\* LCP, alt-text, responsive and medium-priority entries, each under its
\* condition and in that order, and the three general suggestions last.
C18_OnlyTheSevenKinds ==
  pc = "reported" =>
    /\ CommonRecommendations
    /\ \A i \in DOMAIN report.recommendations :
         report.recommendations[i].kind
           \in {"high-priority", "item", "load-time", "lcp", "lcp-resource", "alt-text",
                "responsive", "medium-priority", "general"}

\* C18: right after generateReport, the recommendations hold, in this order:
\* a heading iff some high-severity Finding fails and the first three such
\* Findings itemized; the load-time entry iff loadTime > 3000; the LCP entry
\* iff LCP > 2500; the LCP resource entry iff the LCP entry has a URL; the
\* alt-text entry iff an Image Alt Text Finding fails; the responsive entry
\* naming the devices with issues; the accessibility entry iff some
\* AccessibilityIssue is critical or serious; the medium-priority entry iff
\* more than 5 medium-severity Findings fail; the three general suggestions.
C18_TenKindsInOrder ==
  pc = "reported" =>
    /\ CommonRecommendations
    /\ Cardinality(Entries("high-priority")) = IF HighFailing # {} THEN 1 ELSE 0
    /\ Cardinality(Entries("lcp-resource")) = IF performanceMetrics.lcpUrl THEN 1 ELSE 0
    /\ Cardinality(Entries("accessibility")) = IF SeriousIssues # {} THEN 1 ELSE 0
    /\ \A i \in Entries("accessibility") :
         report.recommendations[i].count = Cardinality(SeriousIssues)

C18_EveryKindPresent ==
  /\ pc = "reported"
  /\ Cardinality(Entries("item")) = 3
  /\ Cardinality(HighFailing) > 3
  /\ Entries("accessibility") # {}
  /\ Entries("alt-text") # {}
  /\ Entries("responsive") # {}

C18_ManyMediumFailures ==
  /\ pc = "reported"
  /\ Entries("medium-priority") # {}
  /\ Entries("load-time") # {}
  /\ Entries("lcp") # {}

\* C19: right after generateReport, the recommendations hold an entry about
\* LCP, the one naming the LCP resource included, only if the recorded
\* largestContentfulPaint exceeds 2500 ms.
C19_LcpEntriesOnlyWhenSlow ==
  pc = "reported" =>
    (performanceMetrics.largestContentfulPaint <= 2500 =>
       Entries("lcp") \cup Entries("lcp-resource") = {})

\* C20: once a Report has been returned, no step changes what its holder
\* reads in it: its Findings, accessibility issues and responsive results stay
\* as they are, and its score, metrics and recommendations change only by
\* generateReport returning another Report.
C20_ReportUnchangedAfterReturn ==
  [][report.made =>
       /\ results' = ReturnedReport.results
       /\ accessibilityIssues' = ReturnedReport.accessibility
       /\ responsiveResults' = ReturnedReport.responsive
       /\ (report' = report \/ pc' = "reported")]_vars

\* C21: the paint-timing capture never hangs: testPerformance leaves it, and
\* when it leaves it with no entry delivered (the 5 s timer fired first, or the
\* observer could not be set up) the promise has resolved with value 0, the
\* recorded largestContentfulPaint is 0 and the three Findings are appended.
C21_CaptureAlwaysCompletes ==
  /\ [](pc = "capturing" => <>(pc = "caller"))
  /\ [][(pc = "capturing" /\ pc' = "caller" /\ ~capture.entry) =>
          /\ capture.promise = "resolved"
          /\ capture.value = 0
          /\ performanceMetrics'.largestContentfulPaint = 0
          /\ Len(results') = Len(results) + 3
          /\ results'[Len(results') - 1].test = "Largest Contentful Paint"
          /\ results'[Len(results') - 1].status = "pass"]_vars

C21_TimedOutWithZero ==
  /\ pc = "caller"
  /\ capture.promise = "resolved"
  /\ capture.observing
  /\ capture.timer = "fired"
  /\ ~capture.entry
  /\ dom.lcp > 0
  /\ performanceMetrics.largestContentfulPaint = 0
  /\ Len(results) = 3

\* C22: the Image Alt Text Finding of a page with `missing` images without
\* alt text has status pass and score 10 when missing = 0, and otherwise
\* status fail and score max(0, 10 - 2 * missing): 8 for one image, 0 for
\* five or more.
C22_AltTextScore ==
  \A i \in DOMAIN results :
    results[i].test = "Image Alt Text" =>
      LET missing == dom.withoutAlt
          f == results[i]
      IN  /\ missing = 0 => (f.status = "pass" /\ f.score = Pts(10))
          /\ missing > 0 => (f.status = "fail"
                             /\ f.score = Max(0, Pts(10) - Pts(2) * missing))
          /\ missing = 1 => f.score = Pts(8)
          /\ missing >= 5 => f.score = 0

C22_SixImagesScoreZero ==
  /\ dom.withoutAlt = 6
  /\ \E i \in DOMAIN results :
       /\ results[i].test = "Image Alt Text"
       /\ results[i].status = "fail"
       /\ results[i].score = 0

\* C23: whenever runAllTests has returned a Report, the Report holds at least
\* one Finding, its overallScore is a number (not NaN) from 0 to 100, its
\* performance metrics are the ones testPerformance stored, with
\* largestContentfulPaint >= 0, and its accessibility field is a list.
C23_ReturnedReportIsValid ==
  outcome = "report" =>
    /\ report.made
    /\ Len(ReturnedReport.results) > 0
    /\ ~ReturnedReport.overallScore.nan
    /\ ReturnedReport.overallScore.val \in 0..100
    /\ ReturnedReport.performance = MetricsOf(dom)
    /\ ReturnedReport.performance.largestContentfulPaint >= 0
    /\ DOMAIN ReturnedReport.accessibility = 1..Len(ReturnedReport.accessibility)

C23_ReportWithIssuesReturned ==
  /\ outcome = "report"
  /\ Len(ReturnedReport.accessibility) = 2
  /\ ReturnedReport.performance.largestContentfulPaint = 1200

\* C24: a recordProblemArea call that asks for a screenshot of an element it
\* found, and whose capture fails, still returns the ElementIssue of that
\* element, without a screenshot path, and stores it as the last issue of the
\* ProblemArea of its category and test.
C24_ScreenshotFailureSwallowed ==
  [][\A call \in RecordCalls :
       (/\ call.takeScreenshot
        /\ call.page.locate \in {"one", "many"}
        /\ call.page.box = "box"
        /\ call.page.shot \in {"none", "throws"}
        /\ lastCall' = call
        /\ problemAreas' = recordProblemArea(problemAreas, call).problemAreas
        /\ returned' = recordProblemArea(problemAreas, call).returned)
       => /\ returned' # Null
          /\ returned'.selector = call.selector
          /\ returned'.screenshotPath = Undefined
          /\ \E i \in DOMAIN problemAreas' :
               LET area == problemAreas'[i]
               IN  /\ area.category = call.category
                   /\ area.test = call.test
                   /\ area.issues[Len(area.issues)] = returned']_vars

C24_StoredWithoutEvidence ==
  /\ lastCall.takeScreenshot
  /\ lastCall.page.shot = "throws"
  /\ returned # Null
  /\ returned.screenshotPath = Undefined
  /\ \E i \in DOMAIN problemAreas :
       problemAreas[i].issues[Len(problemAreas[i].issues)] = returned

\* C25: the recorder never holds two ProblemAreas of the same category and
\* test, nor an empty one; and a recordProblemArea call that returns an
\* ElementIssue appends exactly that issue to the ProblemArea of its category
\* and test, which it creates at the end of the list on first use, and leaves
\* every other ProblemArea as it was.
C25_OneAreaPerTest ==
  /\ [](/\ \A i \in DOMAIN problemAreas : \A j \in DOMAIN problemAreas :
             (problemAreas[i].category = problemAreas[j].category
              /\ problemAreas[i].test = problemAreas[j].test) => i = j
        /\ \A i \in DOMAIN problemAreas : Len(problemAreas[i].issues) >= 1)
  /\ [][\A call \in RecordCalls :
          (/\ lastCall' = call
           /\ problemAreas' = recordProblemArea(problemAreas, call).problemAreas
           /\ returned' = recordProblemArea(problemAreas, call).returned
           /\ returned' # Null)
          => LET same == {i \in DOMAIN problemAreas :
                            /\ problemAreas[i].category = call.category
                            /\ problemAreas[i].test = call.test}
             IN  /\ CountIssues(problemAreas') = CountIssues(problemAreas) + 1
                 /\ IF same = {}
                    THEN problemAreas' = Append(problemAreas,
                                                [category |-> call.category,
                                                 test |-> call.test,
                                                 issues |-> <<returned'>>])
                    ELSE \E i \in same :
                           problemAreas' = [problemAreas EXCEPT
                                              ![i].issues = Append(@, returned')]]_vars

C25_SecondIssueInFirstArea ==
  /\ Len(problemAreas) = 2
  /\ Len(problemAreas[1].issues) = 2
  /\ problemAreas[1].issues[2] = returned

\* C26: once testResponsive has run, the Findings hold exactly one
\* 'Responsive Design' Finding for each configured device, whichever of the
\* device's browser operations failed.
C26_OneFindingPerDevice ==
  Ran("testResponsive") =>
    \A i \in DOMAIN Devices :
      Cardinality({k \in DOMAIN results :
                     /\ results[k].category = "Responsive Design"
                     /\ results[k].test = Devices[i].name}) = 1

\* C27: the start timestamp of testPerformance is read after the navigation
\* has completed, the end timestamp is the very next thing on the timeline,
\* and the loadTime recorded is their difference: it holds nothing of the
\* time the page took to load, however long that was.
C27_LoadTimeExcludesNavigation ==
  \A i \in DOMAIN timeline :
    timeline[i].what = "startTime" =>
      /\ \E j \in 1..(i - 1) :
           /\ timeline[j].what = "loaded"
           /\ timeline[j].at <= timeline[i].at
           /\ timeline[j].at - timeline[j - 1].at = dom.loadDuration
      /\ i < Len(timeline)
      /\ timeline[i + 1].what = "endTime"
      /\ (\E k \in DOMAIN results : results[k].test = "Page Load Time") =>
           /\ performanceMetrics.loadTime = timeline[i + 1].at - timeline[i].at
           /\ performanceMetrics.loadTime = dom.tick

C27_SlowPageMeasuredAsInstant ==
  /\ dom.loadDuration = 6000
  /\ performanceMetrics.loadTime = 0
  /\ \E k \in DOMAIN results :
       /\ results[k].test = "Page Load Time"
       /\ results[k].status = "pass"
       /\ results[k].score = Pts(10)

\* C28: no step removes, changes or reorders an entry of the Findings, the
\* AccessibilityIssues or the ResponsiveResults: each list is a prefix of what
\* it is after the step, also across a further runAllTests, whose Report is
\* made of the earlier entries followed by the new ones.
C28_SessionListsOnlyGrow ==
  [][/\ IsPrefix(results, results')
     /\ IsPrefix(accessibilityIssues, accessibilityIssues')
     /\ IsPrefix(responsiveResults, responsiveResults')
     /\ (pc = "generateReport" /\ pc' = "finally") =>
          report'.overallScore = OverallScore(results)]_vars

C28_SecondReportHoldsBothRuns ==
  /\ calls = 1
  /\ outcome = "report"
  /\ Len(responsiveResults) = 2 * Len(Devices)
  /\ Len(accessibilityIssues) = 4
  /\ \E i \in DOMAIN results : \E j \in DOMAIN results :
       /\ i < j
       /\ results[i].test = "Page Load Time"
       /\ results[j].test = "Page Load Time"

\* C29: no Finding carries an ElementIssue list, and a Report has no field
\* holding ElementIssues or ProblemAreas: what the probes record through
\* recordProblemArea is held by the recorder alone.
C29_EvidenceStaysInRecorder ==
  /\ \A i \in DOMAIN results : results[i].elements = Undefined
  /\ report.made =>
       /\ DOMAIN report = {"made", "overallScore", "performance", "recommendations"}
       /\ \A i \in DOMAIN ReturnedReport.results :
            ReturnedReport.results[i].elements = Undefined
       /\ \A i \in DOMAIN report.recommendations :
            report.recommendations[i].kind # "item"
              \/ report.recommendations[i].names \in
                   {<<results[k].category, results[k].test>> : k \in DOMAIN results}

C29_ReportBesideRecordedEvidence ==
  /\ outcome = "report"
  /\ Len(problemAreas) = 3
  /\ \E i \in DOMAIN problemAreas :
       /\ problemAreas[i].test = "Image Alt Text"
       /\ Len(problemAreas[i].issues) = 3
       /\ problemAreas[i].issues[1].screenshotPath = "path"
  /\ \E i \in DOMAIN results :
       results[i].test = "Image Alt Text" /\ results[i].status = "fail"

\* C30: once testAccessibility has run, nothing has been thrown and the
\* Findings hold exactly one 'Overall A11y Issues', the last of them: the one
\* scored from the number of critical and serious issues when every step
\* completed, or the degraded one (warning, score 5, low) when running the
\* engine or mapping its violations threw, and then none of the skip-link,
\* lang and landmark Findings and no focus-traversal Finding beside the
\* keyboard probe's own.
C30_OneOverallFinding ==
  Ran("testAccessibility") =>
    LET Named(tests) == {i \in DOMAIN results : results[i].test \in tests}
        last == results[Len(results)]
        serious == CountCritical(accessibilityIssues)
        threw == /\ AxeLoaded(faults.axe)
                 /\ \/ faults.axe.run = "fail"
                    \/ \E k \in DOMAIN dom.violations : ~dom.violations[k].wellFormed
    IN  /\ pending = "none"
        /\ Cardinality(Named({"Overall A11y Issues"})) = 1
        /\ last.test = "Overall A11y Issues"
        /\ threw =>
             /\ last.status = "warning" /\ last.score = Pts(5) /\ last.severity = "low"
             /\ Named({"Skip Link", "Language Attribute", "ARIA Landmarks"}) = {}
             /\ Cardinality(Named({"Keyboard Navigation"})) = 1
        /\ ~threw =>
             /\ last.status = (IF serious = 0 THEN "pass"
                               ELSE IF serious <= 2 THEN "warning" ELSE "fail")
             /\ last.severity = (IF serious > 2 THEN "high" ELSE "medium")
             /\ Cardinality(Named({"Skip Link", "Language Attribute",
                                   "ARIA Landmarks"})) = 3
             /\ Cardinality(Named({"Keyboard Navigation"})) = 2

C30_MappingThrewHalfway ==
  /\ Ran("testAccessibility")
  /\ Len(dom.violations) = 2
  /\ ~dom.violations[2].wellFormed
  /\ Len(accessibilityIssues) = 1
  /\ results[Len(results)].test = "Overall A11y Issues"
  /\ results[Len(results)].score = Pts(5)
  /\ results[Len(results)].severity = "low"

====
